---------------------------- MODULE Spec2Model ----------------------------
(***************************************************************************)
(* toydb: the pager, the B+-tree node layout and the insert / select /     *)
(* close paths of the single-table database, as a state machine.           *)
(*                                                                         *)
(* A page is a byte array in the program.  Here a page is kept as its      *)
(* fields (header bytes and leaf cells); every accessor of btree/node.go   *)
(* is translated as a read or write AT ITS BYTE OFFSET (ReadU32/WriteU32), *)
(* so that reading an internal node through a leaf accessor (or the        *)
(* reverse) yields the bytes the program would see.                        *)
(*                                                                         *)
(* File I/O is assumed to succeed (no seek/read/write/close error).        *)
(***************************************************************************)
EXTENDS Integers, Sequences, FiniteSets, TLC

(***************************************************************************)
(* Bounds of the model.                                                    *)
(*   CellsPerPage    the number of leaf cells a page holds.  The program's *)
(*                   PAGE_SIZE is 4096, which gives 13; the model's page   *)
(*                   is sized to hold CellsPerPage cells.                  *)
(*   TABLE_MAX_PAGES the capacity of the page cache (100 in the program).  *)
(***************************************************************************)
CellsPerPage == 2
TABLE_MAX_PAGES == 4

(***************************************************************************)
(* Layout constants.                                                       *)
(***************************************************************************)
ID_SIZE == 4
COLUMN_USERNAME_SIZE == 32
COLUMN_EMAIL_SIZE == 255
ROW_SIZE == ID_SIZE + COLUMN_USERNAME_SIZE + COLUMN_EMAIL_SIZE
ID_OFFSET == 0
USERNAME_OFFSET == ID_OFFSET + ID_SIZE
EMAIL_OFFSET == USERNAME_OFFSET + COLUMN_USERNAME_SIZE

NODE_INTERNAL == 0
NODE_LEAF == 1

NODE_TYPE_SIZE == 1
NODE_TYPE_OFFSET == 0
IS_ROOT_SIZE == 1
IS_ROOT_OFFSET == NODE_TYPE_SIZE
PARENT_POINTER_SIZE == 4
PARENT_POINTER_OFFSET == IS_ROOT_OFFSET + IS_ROOT_SIZE
COMMON_NODE_HEADER_SIZE == NODE_TYPE_SIZE + IS_ROOT_SIZE + PARENT_POINTER_SIZE

LEAF_NODE_NUM_CELLS_SIZE == 4
LEAF_NODE_NUM_CELLS_OFFSET == COMMON_NODE_HEADER_SIZE
LEAF_NODE_HEADER_SIZE == COMMON_NODE_HEADER_SIZE + LEAF_NODE_NUM_CELLS_SIZE

LEAF_NODE_KEY_SIZE == 4
LEAF_NODE_KEY_OFFSET == 0
LEAF_NODE_VALUE_SIZE == ROW_SIZE
LEAF_NODE_VALUE_OFFSET == LEAF_NODE_KEY_OFFSET + LEAF_NODE_KEY_SIZE
LEAF_NODE_CELL_SIZE == LEAF_NODE_KEY_SIZE + LEAF_NODE_VALUE_SIZE

\* 4096 in the program; here the page holds exactly CellsPerPage cells.
PAGE_SIZE == LEAF_NODE_HEADER_SIZE + CellsPerPage * LEAF_NODE_CELL_SIZE

LEAF_NODE_SPACE_FOR_CELLS == PAGE_SIZE - LEAF_NODE_HEADER_SIZE
LEAF_NODE_MAX_CELLS == LEAF_NODE_SPACE_FOR_CELLS \div LEAF_NODE_CELL_SIZE

INTERNAL_NODE_NUM_KEYS_SIZE == 4
INTERNAL_NODE_NUM_KEYS_OFFSET == COMMON_NODE_HEADER_SIZE
INTERNAL_NODE_RIGHT_CHILD_SIZE == 4
INTERNAL_NODE_RIGHT_CHILD_OFFSET == INTERNAL_NODE_NUM_KEYS_OFFSET + INTERNAL_NODE_NUM_KEYS_SIZE
INTERNAL_NODE_HEADER_SIZE == COMMON_NODE_HEADER_SIZE + INTERNAL_NODE_NUM_KEYS_SIZE + INTERNAL_NODE_RIGHT_CHILD_SIZE
INTERNAL_NODE_KEY_SIZE == 4
INTERNAL_NODE_CHILD_SIZE == 4
INTERNAL_NODE_CELL_SIZE == INTERNAL_NODE_CHILD_SIZE + INTERNAL_NODE_KEY_SIZE

LEAF_NODE_RIGHT_SPLIT_COUNT == (LEAF_NODE_MAX_CELLS + 1) \div 2
LEAF_NODE_LEFT_SPLIT_COUNT == (LEAF_NODE_MAX_CELLS + 1) - LEAF_NODE_RIGHT_SPLIT_COUNT

(***************************************************************************)
(* Bytes.  A fixed-size byte array ([n]byte) is kept without its trailing  *)
(* NUL bytes; Pad gives the array back.                                    *)
(***************************************************************************)
Trim(s) ==
    LET last == CHOOSE i \in 0..Len(s) :
                    (i = 0 \/ s[i] # 0) /\ \A j \in (i + 1)..Len(s) : s[j] = 0
    IN  SubSeq(s, 1, last)

Pad(s, n) == [i \in 1..n |-> IF i <= Len(s) THEN s[i] ELSE 0]

\* binary.LittleEndian.PutUint32 / Uint32
PutUint32(v) == << v % 256, (v \div 256) % 256, (v \div 65536) % 256, (v \div 16777216) % 256 >>
Uint32(b) == b[1] + 256 * b[2] + 65536 * b[3] + 16777216 * b[4]

\* copy(dst, src[:]) of an array into the n bytes dst: the first n bytes of src
CopyArray(src, n) == Trim(SubSeq(src, 1, IF Len(src) < n THEN Len(src) ELSE n))

\* copy(dst[at:], src) on an array of n bytes kept trimmed (at is 0-based)
Patch(s, n, at, src) ==
    Trim([i \in 1..n |-> IF i > at /\ i <= at + Len(src) THEN src[i - at] ELSE Pad(s, n)[i]])

(***************************************************************************)
(* Pages.                                                                  *)
(***************************************************************************)
ZeroCell == [key |-> 0, id |-> 0, username |-> <<>>, email |-> <<>>]

\* make([]byte, PAGE_SIZE)
ZeroPage == [type |-> 0, root |-> 0, parent |-> 0, num |-> 0,
             cells |-> [i \in 1..CellsPerPage |-> ZeroCell]]

\* The four bytes at byte offset off of the page, as a little-endian u32.
ReadU32(node, off) ==
    IF off = PARENT_POINTER_OFFSET THEN node.parent
    ELSE IF off = LEAF_NODE_NUM_CELLS_OFFSET THEN node.num
    ELSE LET c == (off - LEAF_NODE_HEADER_SIZE) \div LEAF_NODE_CELL_SIZE
             r == (off - LEAF_NODE_HEADER_SIZE) % LEAF_NODE_CELL_SIZE
             cell == node.cells[c + 1]
             v == r - LEAF_NODE_VALUE_OFFSET
             \* the four bytes of the array from the 0-based index at on
             bytes(s, at) == [i \in 1..4 |-> IF at + i <= Len(s) THEN s[at + i] ELSE 0]
         IN  IF r = LEAF_NODE_KEY_OFFSET THEN cell.key
             ELSE IF v = ID_OFFSET THEN cell.id
             ELSE IF v + 4 <= EMAIL_OFFSET
                  THEN Uint32(bytes(cell.username, v - USERNAME_OFFSET))
                  ELSE Uint32(bytes(cell.email, v - EMAIL_OFFSET))

\* The page with the little-endian u32 val written at byte offset off.
WriteU32(node, off, val) ==
    IF off = PARENT_POINTER_OFFSET THEN [node EXCEPT !.parent = val]
    ELSE IF off = LEAF_NODE_NUM_CELLS_OFFSET THEN [node EXCEPT !.num = val]
    ELSE LET c == (off - LEAF_NODE_HEADER_SIZE) \div LEAF_NODE_CELL_SIZE
             r == (off - LEAF_NODE_HEADER_SIZE) % LEAF_NODE_CELL_SIZE
             v == r - LEAF_NODE_VALUE_OFFSET
         IN  IF r = LEAF_NODE_KEY_OFFSET THEN [node EXCEPT !.cells[c + 1].key = val]
             ELSE IF v = ID_OFFSET THEN [node EXCEPT !.cells[c + 1].id = val]
             ELSE IF v + 4 <= EMAIL_OFFSET
                  THEN [node EXCEPT !.cells[c + 1].username =
                           Patch(@, COLUMN_USERNAME_SIZE, v - USERNAME_OFFSET, PutUint32(val))]
                  ELSE [node EXCEPT !.cells[c + 1].email =
                           Patch(@, COLUMN_EMAIL_SIZE, v - EMAIL_OFFSET, PutUint32(val))]

GetNodeType(node) == node.type
SetNodeType(node, nodeType) == [node EXCEPT !.type = nodeType]
IsNodeRoot(node) == node.root # 0
\* a faulty SetNodeRoot, for comparison: the flag is set whatever isRoot is
SetNodeRootAlways(node, isRoot) == [node EXCEPT !.root = 1]
SetNodeRoot(node, isRoot) == [node EXCEPT !.root = IF isRoot THEN 1 ELSE 0]

nodeParent(node) == ReadU32(node, PARENT_POINTER_OFFSET)
setNodeParent(node, parent) == WriteU32(node, PARENT_POINTER_OFFSET, parent)

LeafNodeNumCells(node) == ReadU32(node, LEAF_NODE_NUM_CELLS_OFFSET)
SetLeafNodeNumCells(node, numCells) == WriteU32(node, LEAF_NODE_NUM_CELLS_OFFSET, numCells)

\* the byte offset of a leaf cell (the cell is node[offset : offset+LEAF_NODE_CELL_SIZE])
LeafNodeCellOffset(cellNum) == LEAF_NODE_HEADER_SIZE + cellNum * LEAF_NODE_CELL_SIZE
LeafNodeCell(node, cellNum) == node.cells[cellNum + 1]
\* copy(LeafNodeCell(node, cellNum), cell)
SetLeafNodeCell(node, cellNum, cell) == [node EXCEPT !.cells[cellNum + 1] = cell]

LeafNodeKey(node, cellNum) == ReadU32(node, LeafNodeCellOffset(cellNum) + LEAF_NODE_KEY_OFFSET)
SetLeafNodeKey(node, cellNum, key) ==
    WriteU32(node, LeafNodeCellOffset(cellNum) + LEAF_NODE_KEY_OFFSET, key)

\* the ROW_SIZE bytes of the value of a cell, as the three fields of a row slot
LeafNodeValue(node, cellNum) ==
    [id |-> node.cells[cellNum + 1].id,
     username |-> node.cells[cellNum + 1].username,
     email |-> node.cells[cellNum + 1].email]

\* a faulty InitializeLeafNode, for comparison: the node type is not written
InitializeLeafNodeUntyped(node) == SetLeafNodeNumCells(SetNodeRoot(node, FALSE), 0)

InitializeLeafNode(node) ==
    SetLeafNodeNumCells(SetNodeRoot(SetNodeType(node, NODE_LEAF), FALSE), 0)

InternalNodeNumKeys(node) == ReadU32(node, INTERNAL_NODE_NUM_KEYS_OFFSET)
SetInternalNodeNumKeys(node, numKeys) == WriteU32(node, INTERNAL_NODE_NUM_KEYS_OFFSET, numKeys)
InternalNodeRightChild(node) == ReadU32(node, INTERNAL_NODE_RIGHT_CHILD_OFFSET)
SetInternalNodeRightChild(node, pageNum) == WriteU32(node, INTERNAL_NODE_RIGHT_CHILD_OFFSET, pageNum)
InternalNodeCellOffset(cellNum) == INTERNAL_NODE_HEADER_SIZE + cellNum * INTERNAL_NODE_CELL_SIZE

\* a faulty InternalNodeChild, for comparison: no bound on childNum, every
\* index from num_keys on is answered with the right child
InternalNodeChildUnchecked(node, childNum) ==
    IF childNum >= InternalNodeNumKeys(node)
    THEN [panic |-> FALSE, val |-> InternalNodeRightChild(node)]
    ELSE [panic |-> FALSE, val |-> ReadU32(node, InternalNodeCellOffset(childNum))]

\* [panic |-> TRUE] when childNum > numKeys, else the child page number in val
InternalNodeChild(node, childNum) ==
    LET numKeys == InternalNodeNumKeys(node)
    IN  IF childNum > numKeys THEN [panic |-> TRUE, val |-> 0]
        ELSE IF childNum = numKeys
             THEN [panic |-> FALSE, val |-> InternalNodeRightChild(node)]
             ELSE [panic |-> FALSE, val |-> ReadU32(node, InternalNodeCellOffset(childNum))]

SetInternalNodeChild(node, childNum, child) ==
    LET numKeys == InternalNodeNumKeys(node)
    IN  IF childNum = numKeys THEN SetInternalNodeRightChild(node, child)
        ELSE WriteU32(node, InternalNodeCellOffset(childNum), child)

InternalNodeKey(node, keyNum) ==
    ReadU32(node, InternalNodeCellOffset(keyNum) + INTERNAL_NODE_CHILD_SIZE)
SetInternalNodeKey(node, keyNum, key) ==
    WriteU32(node, InternalNodeCellOffset(keyNum) + INTERNAL_NODE_CHILD_SIZE, key)

InitializeInternalNode(node) ==
    SetInternalNodeNumKeys(SetNodeRoot(SetNodeType(node, NODE_INTERNAL), FALSE), 0)

(***************************************************************************)
(* State.                                                                  *)
(*   file     the backing file: its Length in bytes and its Pages, the     *)
(*            bytes cut at every PAGE_SIZE (what lies past Length in the   *)
(*            last page is not in the file and reads as nothing)           *)
(*   pager    Pager: FileLength, NumPages and the cache Pages, a function  *)
(*            on the page numbers whose slot is not nil                    *)
(*   table    Table.RootPageNum                                            *)
(*   session  "closed" (no process), "open" (the REPL is running),         *)
(*            "crashed" (the process was ended by a Go runtime panic)      *)
(*   out      what the last command printed: the command, the result line  *)
(*            and the rows a select emitted                                *)
(*   fresh    the process was started on a file with no page (history)     *)
(*   accepted the rows whose insert printed Executed. in this process,     *)
(*            kept while fresh (history)                                   *)
(*   full     an insert of this process printed Error: Table full.         *)
(*            (history)                                                    *)
(***************************************************************************)
VARIABLES file, pager, table, session, out, fresh, accepted, full, selecting, finding

vars == << file, pager, table, session, out, fresh, accepted, full, selecting, finding >>

\* the ids of the insert statements
Ids == 1..4
\* Statement.RowToInsert after a successful prepareInsert: one row for each id,
\* and a second row with another username for the id 4
Rows == [ID : Ids, Username : { <<97>> }, Email : { <<101>> }]
            \cup { [ID |-> 4, Username |-> <<98>>, Email |-> <<101>>] }

EXECUTE_SUCCESS == "Executed."
EXECUTE_DUPLICATE_KEY == "Error: Duplicate key."
EXECUTE_TABLE_FULL == "Error: Table full."
PANIC == "panic"

(***************************************************************************)
(* Pager.  Operations on the pager take f, the file that p.FileDescriptor  *)
(* refers to, and the Pager p, and give back                               *)
(* [p |-> the pager afterwards, err |-> "ok" | "error" | "panic"].         *)
(***************************************************************************)
\* no process: nothing is in memory
NoPager == [FileLength |-> 0, NumPages |-> 0, Pages |-> << >>]

Cached(p, pageNum) == pageNum \in DOMAIN p.Pages

\* p.Pages[pageNum] = page
Install(p, pageNum, page) ==
    [p EXCEPT !.Pages = [n \in (DOMAIN p.Pages) \cup {pageNum} |->
                            IF n = pageNum THEN page ELSE p.Pages[n]]]

\* the miss branch of getPage: the page read from the file (a short read is
\* tolerated, the rest stays zero) or a zero-filled page
loadPage(f, p, pageNum) ==
    IF pageNum < (p.FileLength \div PAGE_SIZE) + (IF p.FileLength % PAGE_SIZE # 0 THEN 1 ELSE 0)
       /\ pageNum < Len(f.Pages)
    THEN f.Pages[pageNum + 1] ELSE ZeroPage

getPage(f, p, pageNum) ==
    IF pageNum > TABLE_MAX_PAGES THEN [p |-> p, err |-> "error"]
    \* p.Pages is an array of TABLE_MAX_PAGES slots: index out of range
    ELSE IF pageNum >= TABLE_MAX_PAGES THEN [p |-> p, err |-> "panic"]
    ELSE IF ~Cached(p, pageNum)
    THEN [p |-> [Install(p, pageNum, loadPage(f, p, pageNum)) EXCEPT
                    !.NumPages = IF pageNum >= @ THEN pageNum + 1 ELSE @],
          err |-> "ok"]
    ELSE [p |-> p, err |-> "ok"]

\* the pager with node stored into the cached page pageNum (a write through
\* the slice getPage returned)
SetPage(p, pageNum, node) == [p EXCEPT !.Pages[pageNum] = node]

\* a faulty pagerOpen, for comparison: the length of the file is not tested
pagerOpenAnyLength(f) ==
    [p |-> [FileLength |-> f.Length,
            NumPages |-> f.Length \div PAGE_SIZE,
            Pages |-> << >>],
     err |-> "ok"]

\* [p, err]: "corrupt" when the file is not a whole number of pages
pagerOpen(f) ==
    IF f.Length % PAGE_SIZE # 0 THEN [p |-> NoPager, err |-> "corrupt"]
    ELSE [p |-> [FileLength |-> f.Length,
                 NumPages |-> f.Length \div PAGE_SIZE,
                 Pages |-> << >>],
          err |-> "ok"]

\* the first size bytes of the page new laid over the page old; a field is
\* taken from new when all its bytes are among the first size
Overwrite(old, new, size) ==
    [type |-> IF size >= NODE_TYPE_OFFSET + NODE_TYPE_SIZE THEN new.type ELSE old.type,
     root |-> IF size >= IS_ROOT_OFFSET + IS_ROOT_SIZE THEN new.root ELSE old.root,
     parent |-> IF size >= COMMON_NODE_HEADER_SIZE THEN new.parent ELSE old.parent,
     num |-> IF size >= LEAF_NODE_HEADER_SIZE THEN new.num ELSE old.num,
     cells |-> [c \in 1..CellsPerPage |->
        [key |-> IF size >= LeafNodeCellOffset(c - 1) + LEAF_NODE_VALUE_OFFSET
                 THEN new.cells[c].key ELSE old.cells[c].key,
         id |-> IF size >= LeafNodeCellOffset(c - 1) + LEAF_NODE_VALUE_OFFSET + USERNAME_OFFSET
                THEN new.cells[c].id ELSE old.cells[c].id,
         username |-> IF size >= LeafNodeCellOffset(c - 1) + LEAF_NODE_VALUE_OFFSET + EMAIL_OFFSET
                      THEN new.cells[c].username ELSE old.cells[c].username,
         email |-> IF size >= LeafNodeCellOffset(c) THEN new.cells[c].email
                   ELSE old.cells[c].email]]]

\* a faulty flush, for comparison: nothing reaches the file
pagerFlushNothing(f, p, pageNum, size) == f

\* the file after the first size bytes of the cached page pageNum were
\* written at pageNum * PAGE_SIZE: the file grows to the end of the write,
\* a gap before the written page reads as zero bytes
pagerFlush(f, p, pageNum, size) ==
    LET end == pageNum * PAGE_SIZE + size
        length == IF end > f.Length THEN end ELSE f.Length
        before(i) == IF i <= Len(f.Pages) THEN f.Pages[i] ELSE ZeroPage
    IN  [Length |-> length,
         Pages |-> [i \in 1..((length + PAGE_SIZE - 1) \div PAGE_SIZE) |->
                       IF i = pageNum + 1 THEN Overwrite(before(i), p.Pages[pageNum], size)
                       ELSE before(i)]]

Drop(p, pageNum) ==
    [p EXCEPT !.Pages = [n \in (DOMAIN p.Pages) \ {pageNum} |-> p.Pages[n]]]

\* the loop of dbClose from page i on: [f |-> file, p |-> pager]
RECURSIVE dbCloseFrom(_, _, _)
dbCloseFrom(f, p, i) ==
    IF i >= p.NumPages THEN [f |-> f, p |-> p]
    ELSE IF ~Cached(p, i) THEN dbCloseFrom(f, p, i + 1)
    ELSE dbCloseFrom(pagerFlush(f, p, i, PAGE_SIZE), Drop(p, i), i + 1)

\* a faulty close, for comparison: the loop starts at page 1
dbCloseAfterRoot(f, p) == dbCloseFrom(f, p, 1)

\* a faulty close, for comparison: the loop stops one page early
dbCloseBeforeLast(f, p) == dbCloseFrom(f, [p EXCEPT !.NumPages = @ - 1], 0)

dbClose(f, p) == dbCloseFrom(f, p, 0)

\* [p, err]
\* dbOpen without the SetNodeRoot(rootNode, true) of a new database file
dbOpenRootUnset(f) ==
    LET newRoot(r) ==
            IF r.err # "ok" THEN r
            ELSE [r EXCEPT !.p = SetPage(r.p, 0, InitializeLeafNode(r.p.Pages[0]))]
        opened(o) == IF o.err # "ok" THEN o
                     ELSE IF o.p.NumPages = 0 THEN newRoot(getPage(f, o.p, 0))
                     ELSE o
    IN  opened(pagerOpen(f))

dbOpen(f) ==
    LET newRoot(r) ==
            IF r.err # "ok" THEN r
            ELSE [r EXCEPT !.p = SetPage(r.p, 0,
                                    SetNodeRoot(InitializeLeafNode(r.p.Pages[0]), TRUE))]
        opened(o) == IF o.err # "ok" THEN o
                     ELSE IF o.p.NumPages = 0 THEN newRoot(getPage(f, o.p, 0))
                     ELSE o
    IN  opened(pagerOpen(f))

(***************************************************************************)
(* Record codec.  A row slot is the ROW_SIZE bytes of a cell's value, kept *)
(* as its three fields.                                                    *)
(***************************************************************************)
\* copy(dst, src[:count]) onto the array dst: its first count bytes are taken
\* from the array src, the bytes behind them stay as they were (arrays are
\* kept without their trailing zero bytes)
CopyInto(dst, src, count) ==
    IF count >= Len(dst)
    THEN Trim(SubSeq(src, 1, IF Len(src) < count THEN Len(src) ELSE count))
    ELSE Pad(src, count) \o SubSeq(dst, count + 1, Len(dst))

\* a faulty serializeRow, for comparison: the strings are copied up to their
\* last non-zero byte only, as a string copy would
serializeRowAsStrings(source, destination) ==
    [id |-> Uint32(PutUint32(source.ID)),
     username |-> CopyInto(destination.username, source.Username, Len(Trim(source.Username))),
     email |-> CopyInto(destination.email, source.Email, Len(Trim(source.Email)))]

\* the slot destination after serializeRow(source, destination): the id and
\* the two whole arrays of the row are copied over it
serializeRow(source, destination) ==
    [id |-> Uint32(PutUint32(source.ID)),
     username |-> CopyInto(destination.username, source.Username, COLUMN_USERNAME_SIZE),
     email |-> CopyInto(destination.email, source.Email, COLUMN_EMAIL_SIZE)]

deserializeRow(source) ==
    [ID |-> Uint32(PutUint32(source.id)),
     Username |-> CopyArray(source.username, COLUMN_USERNAME_SIZE),
     Email |-> CopyArray(source.email, COLUMN_EMAIL_SIZE)]

\* printRow: the id and the two strings without their trailing zero bytes
printRow(row) ==
    [id |-> row.ID, username |-> Trim(row.Username), email |-> Trim(row.Email)]

\* serializeRow(value, LeafNodeValue(node, cellNum))
SetLeafNodeValue(node, cellNum, value) ==
    LET written(slot) ==
            [node EXCEPT !.cells[cellNum + 1].id = slot.id,
                         !.cells[cellNum + 1].username = slot.username,
                         !.cells[cellNum + 1].email = slot.email]
    IN  written(serializeRow(value, LeafNodeValue(node, cellNum)))

(***************************************************************************)
(* Search.  A find gives [p, err, cursor].                                 *)
(***************************************************************************)
NoCursor == [PageNum |-> 0, CellNum |-> 0, EndOfTable |-> FALSE]

FindFailed(r) == [p |-> r.p, err |-> r.err, cursor |-> NoCursor]

\* no executeSelect is running
NoScan == [pc |-> "idle", cursor |-> NoCursor]

\* no tableFind is running
NoFind == [pc |-> "idle", key |-> 0, path |-> << >>, cursor |-> NoCursor]

\* the binary search loop of leafNodeFind
\* a faulty search, for comparison: it gives the end of the leaf without
\* looking at a key
leafSearchAtEnd(node, key, minIndex, onePastMaxIndex) == onePastMaxIndex

\* a faulty search, for comparison: a key equal to the probe is passed over
RECURSIVE leafSearchPastEqual(_, _, _, _)
leafSearchPastEqual(node, key, minIndex, onePastMaxIndex) ==
    IF onePastMaxIndex = minIndex THEN minIndex
    ELSE LET idx == (minIndex + onePastMaxIndex) \div 2
         IN  IF key < LeafNodeKey(node, idx)
             THEN leafSearchPastEqual(node, key, minIndex, idx)
             ELSE leafSearchPastEqual(node, key, idx + 1, onePastMaxIndex)

RECURSIVE leafSearch(_, _, _, _)
leafSearch(node, key, minIndex, onePastMaxIndex) ==
    IF onePastMaxIndex = minIndex THEN minIndex
    ELSE LET idx == (minIndex + onePastMaxIndex) \div 2
         IN  IF key = LeafNodeKey(node, idx) THEN idx
             ELSE IF key < LeafNodeKey(node, idx) THEN leafSearch(node, key, minIndex, idx)
             ELSE leafSearch(node, key, idx + 1, onePastMaxIndex)

leafNodeFind(f, p, pageNum, key) ==
    LET found(r) ==
            IF r.err # "ok" THEN FindFailed(r)
            ELSE [p |-> r.p, err |-> "ok",
                  cursor |-> [PageNum |-> pageNum,
                              CellNum |-> leafSearch(r.p.Pages[pageNum], key, 0,
                                                     LeafNodeNumCells(r.p.Pages[pageNum])),
                              EndOfTable |-> FALSE]]
    IN  found(getPage(f, p, pageNum))

\* the binary search loop of internalNodeFind
\* a faulty search, for comparison: it always gives the last index, the
\* right child
internalSearchLast(node, key, minIdx, maxIdx) == maxIdx

\* a faulty search, for comparison: a cell key equal to the probe sends the
\* search to the right of the cell
RECURSIVE internalSearchGreater(_, _, _, _)
internalSearchGreater(node, key, minIdx, maxIdx) ==
    IF minIdx = maxIdx THEN minIdx
    ELSE LET idx == (minIdx + maxIdx) \div 2
         IN  IF InternalNodeKey(node, idx) > key
             THEN internalSearchGreater(node, key, minIdx, idx)
             ELSE internalSearchGreater(node, key, idx + 1, maxIdx)

\* a faulty search, for comparison: it gives the index behind the right child
internalSearchBeyond(node, key, minIdx, maxIdx) == maxIdx + 1

RECURSIVE internalSearch(_, _, _, _)
internalSearch(node, key, minIdx, maxIdx) ==
    IF minIdx = maxIdx THEN minIdx
    ELSE LET idx == (minIdx + maxIdx) \div 2
         IN  IF InternalNodeKey(node, idx) >= key THEN internalSearch(node, key, minIdx, idx)
             ELSE internalSearch(node, key, idx + 1, maxIdx)

RECURSIVE internalNodeFind(_, _, _, _)
internalNodeFind(f, p, pageNum, key) ==
    LET descend(c, childNum) ==
            IF c.err # "ok" THEN FindFailed(c)
            ELSE IF GetNodeType(c.p.Pages[childNum]) = NODE_LEAF
                 THEN leafNodeFind(f, c.p, childNum, key)
            ELSE IF GetNodeType(c.p.Pages[childNum]) = NODE_INTERNAL
                 THEN internalNodeFind(f, c.p, childNum, key)
            ELSE [p |-> c.p, err |-> "error", cursor |-> NoCursor]
        child(r, childNum) ==
            IF childNum.panic THEN [p |-> r.p, err |-> "panic", cursor |-> NoCursor]
            ELSE descend(getPage(f, r.p, childNum.val), childNum.val)
        search(r, node) ==
            child(r, InternalNodeChild(node,
                        internalSearch(node, key, 0, InternalNodeNumKeys(node))))
        fetched(r) == IF r.err # "ok" THEN FindFailed(r) ELSE search(r, r.p.Pages[pageNum])
    IN  fetched(getPage(f, p, pageNum))

tableFind(f, p, key) ==
    LET fetched(r, rootPageNum) ==
            IF r.err # "ok" THEN FindFailed(r)
            ELSE IF GetNodeType(r.p.Pages[rootPageNum]) = NODE_LEAF
                 THEN leafNodeFind(f, r.p, rootPageNum, key)
                 ELSE internalNodeFind(f, r.p, rootPageNum, key)
    IN  fetched(getPage(f, p, table.RootPageNum), table.RootPageNum)

(***************************************************************************)
(* Insert.  An insert operation gives [p, err].                            *)
(***************************************************************************)
getUnusedPageNum(p) == p.NumPages

\* the key of the last cell (the node kinds are NODE_INTERNAL and NODE_LEAF)
\* a faulty getNodeMaxKey, for comparison: the key of the first cell
getNodeFirstKey(node) == LeafNodeKey(node, 0)

getNodeMaxKey(node) ==
    IF GetNodeType(node) = NODE_INTERNAL
    THEN InternalNodeKey(node, InternalNodeNumKeys(node) - 1)
    ELSE LeafNodeKey(node, LeafNodeNumCells(node) - 1)

createNewRoot(f, p, rightChildPageNum) ==
    LET \* the root page turned into an internal node with one key
        newRoot(root, leftChild, leftChildPageNum) ==
            SetInternalNodeRightChild(
                SetInternalNodeKey(
                    SetInternalNodeChild(
                        SetInternalNodeNumKeys(
                            SetNodeRoot(InitializeInternalNode(root), TRUE), 1),
                        0, leftChildPageNum),
                    0, getNodeMaxKey(leftChild)),
                rightChildPageNum)
        \* root, leftChild, rightChild are the three pages before any write;
        \* copy(leftChild, root) and SetNodeRoot(leftChild, false) come first
        written(pg, root, rightChild, leftChildPageNum) ==
            SetPage(
                SetPage(
                    SetPage(pg, table.RootPageNum,
                            newRoot(root, SetNodeRoot(root, FALSE), leftChildPageNum)),
                    leftChildPageNum,
                    setNodeParent(SetNodeRoot(root, FALSE), table.RootPageNum)),
                rightChildPageNum, setNodeParent(rightChild, table.RootPageNum))
        step3(r3, leftChildPageNum) ==
            IF r3.err # "ok" THEN r3
            ELSE [p |-> written(r3.p, r3.p.Pages[table.RootPageNum],
                                r3.p.Pages[rightChildPageNum], leftChildPageNum),
                  err |-> "ok"]
        step2(r2) ==
            IF r2.err # "ok" THEN r2
            ELSE step3(getPage(f, r2.p, getUnusedPageNum(r2.p)), getUnusedPageNum(r2.p))
        step1(r1) == IF r1.err # "ok" THEN r1 ELSE step2(getPage(f, r1.p, rightChildPageNum))
    IN  step1(getPage(f, p, table.RootPageNum))

\* the loop of leafNodeSplitAndInsert from i down to 0, on the pair
\* a faulty loop of the split, for comparison: the key of the new cell is
\* written, its record is not
RECURSIVE splitLoopKeyOnly(_, _, _, _, _)
splitLoopKeyOnly(nodes, cursor, key, value, i) ==
    IF i < 0 THEN nodes
    ELSE LET indexWithinNode == i % LEAF_NODE_LEFT_SPLIT_COUNT
             write(destinationNode) ==
                 IF i = cursor.CellNum
                 THEN SetLeafNodeKey(destinationNode, indexWithinNode, key)
                 ELSE IF i > cursor.CellNum
                 THEN SetLeafNodeCell(destinationNode, indexWithinNode,
                                      LeafNodeCell(nodes.old, i - 1))
                 ELSE SetLeafNodeCell(destinationNode, indexWithinNode,
                                      LeafNodeCell(nodes.old, i))
         IN  splitLoopKeyOnly(IF i >= LEAF_NODE_LEFT_SPLIT_COUNT
                              THEN [nodes EXCEPT !.new = write(nodes.new)]
                              ELSE [nodes EXCEPT !.old = write(nodes.old)],
                              cursor, key, value, i - 1)

\* nodes = [old |-> oldNode, new |-> newNode]
RECURSIVE splitLoop(_, _, _, _, _)
splitLoop(nodes, cursor, key, value, i) ==
    IF i < 0 THEN nodes
    ELSE LET indexWithinNode == i % LEAF_NODE_LEFT_SPLIT_COUNT
             write(destinationNode) ==
                 IF i = cursor.CellNum
                 THEN SetLeafNodeValue(SetLeafNodeKey(destinationNode, indexWithinNode, key),
                                       indexWithinNode, value)
                 ELSE IF i > cursor.CellNum
                 THEN SetLeafNodeCell(destinationNode, indexWithinNode,
                                      LeafNodeCell(nodes.old, i - 1))
                 ELSE SetLeafNodeCell(destinationNode, indexWithinNode,
                                      LeafNodeCell(nodes.old, i))
         IN  splitLoop(IF i >= LEAF_NODE_LEFT_SPLIT_COUNT
                       THEN [nodes EXCEPT !.new = write(nodes.new)]
                       ELSE [nodes EXCEPT !.old = write(nodes.old)],
                       cursor, key, value, i - 1)

leafNodeSplitAndInsert(f, p, cursor, key, value) ==
    LET finish(pg, oldNode, newPageNum) ==
            IF IsNodeRoot(oldNode) THEN createNewRoot(f, pg, newPageNum)
            \* "Need to implement updating parent after split"
            ELSE [p |-> pg, err |-> "error"]
        counts(pg, moved, newPageNum) ==
            finish(SetPage(SetPage(pg, cursor.PageNum,
                                   SetLeafNodeNumCells(moved.old, LEAF_NODE_LEFT_SPLIT_COUNT)),
                           newPageNum,
                           SetLeafNodeNumCells(moved.new, LEAF_NODE_RIGHT_SPLIT_COUNT)),
                   moved.old, newPageNum)
        move(pg, oldNode, newPageNum) ==
            counts(pg,
                   splitLoop([old |-> oldNode,
                              new |-> setNodeParent(InitializeLeafNode(pg.Pages[newPageNum]),
                                                    nodeParent(oldNode))],
                             cursor, key, value, LEAF_NODE_MAX_CELLS),
                   newPageNum)
        step2(r2, newPageNum) ==
            IF r2.err # "ok" THEN r2 ELSE move(r2.p, r2.p.Pages[cursor.PageNum], newPageNum)
        step1(r1) ==
            IF r1.err # "ok" THEN r1
            ELSE step2(getPage(f, r1.p, getUnusedPageNum(r1.p)), getUnusedPageNum(r1.p))
    IN  step1(getPage(f, p, cursor.PageNum))

\* the shifting loop of leafNodeInsert: cells i-1 -> i for i from numCells down
\* to cellNum+1
\* a faulty leafNodeInsert, for comparison: no cell is moved to make room
shiftCellsNot(node, i, cellNum) == node

RECURSIVE shiftCells(_, _, _)
shiftCells(node, i, cellNum) ==
    IF i > cellNum
    THEN shiftCells(SetLeafNodeCell(node, i, LeafNodeCell(node, i - 1)), i - 1, cellNum)
    ELSE node

\* a faulty leafNodeInsert, for comparison: a full leaf is not split, the
\* count of its cells grows all the same
leafNodeInsertNeverSplit(f, p, cursor, key, value) ==
    LET counted(r) ==
            IF r.err # "ok" THEN r
            ELSE [p |-> SetPage(r.p, cursor.PageNum,
                                SetLeafNodeNumCells(r.p.Pages[cursor.PageNum],
                                    LeafNodeNumCells(r.p.Pages[cursor.PageNum]) + 1)),
                  err |-> "ok"]
    IN  counted(getPage(f, p, cursor.PageNum))

leafNodeInsert(f, p, cursor, key, value) ==
    LET store(node, numCells) ==
            SetLeafNodeValue(
                SetLeafNodeKey(
                    SetLeafNodeNumCells(
                        IF cursor.CellNum < numCells
                        THEN shiftCells(node, numCells, cursor.CellNum) ELSE node,
                        numCells + 1),
                    cursor.CellNum, key),
                cursor.CellNum, value)
        insert(pg, node, numCells) ==
            IF numCells >= LEAF_NODE_MAX_CELLS
            THEN leafNodeSplitAndInsert(f, pg, cursor, key, value)
            ELSE [p |-> SetPage(pg, cursor.PageNum, store(node, numCells)), err |-> "ok"]
        fetched(r) ==
            IF r.err # "ok" THEN r
            ELSE insert(r.p, r.p.Pages[cursor.PageNum],
                        LeafNodeNumCells(r.p.Pages[cursor.PageNum]))
    IN  fetched(getPage(f, p, cursor.PageNum))

\* a Go runtime panic ends the process; any other error is reported by the
\* REPL as EXECUTE_TABLE_FULL
Failed(err) == IF err = "panic" THEN PANIC ELSE EXECUTE_TABLE_FULL

\* a faulty insert, for comparison: on a duplicate key the row replaces the
\* stored one before the duplicate is reported
executeInsertOverwrite(f, p, rowToInsert) ==
    LET inserted(ins) ==
            IF ins.err # "ok" THEN [p |-> ins.p, res |-> Failed(ins.err)]
            ELSE [p |-> ins.p, res |-> EXECUTE_SUCCESS]
        found(c, numCells, keyToInsert) ==
            IF c.err # "ok" THEN [p |-> c.p, res |-> Failed(c.err)]
            ELSE IF c.cursor.CellNum < numCells
                    /\ LeafNodeKey(c.p.Pages[table.RootPageNum], c.cursor.CellNum) = keyToInsert
                 THEN [p |-> SetPage(c.p, c.cursor.PageNum,
                                     SetLeafNodeValue(c.p.Pages[c.cursor.PageNum],
                                                      c.cursor.CellNum,
                                                      rowToInsert)),
                       res |-> EXECUTE_DUPLICATE_KEY]
                 ELSE inserted(leafNodeInsert(f, c.p, c.cursor, rowToInsert.ID, rowToInsert))
        fetched(r) ==
            IF r.err # "ok" THEN [p |-> r.p, res |-> Failed(r.err)]
            ELSE found(tableFind(f, r.p, rowToInsert.ID),
                       LeafNodeNumCells(r.p.Pages[table.RootPageNum]), rowToInsert.ID)
    IN  fetched(getPage(f, p, table.RootPageNum))

\* [p, res]
executeInsert(f, p, rowToInsert) ==
    LET inserted(ins) ==
            IF ins.err # "ok" THEN [p |-> ins.p, res |-> Failed(ins.err)]
            ELSE [p |-> ins.p, res |-> EXECUTE_SUCCESS]
        \* node is the root page, numCells what LeafNodeNumCells read from it
        found(c, numCells, keyToInsert) ==
            IF c.err # "ok" THEN [p |-> c.p, res |-> Failed(c.err)]
            ELSE IF c.cursor.CellNum < numCells
                    /\ LeafNodeKey(c.p.Pages[table.RootPageNum], c.cursor.CellNum) = keyToInsert
                 THEN [p |-> c.p, res |-> EXECUTE_DUPLICATE_KEY]
                 ELSE inserted(leafNodeInsert(f, c.p, c.cursor, rowToInsert.ID, rowToInsert))
        fetched(r) ==
            IF r.err # "ok" THEN [p |-> r.p, res |-> Failed(r.err)]
            ELSE found(tableFind(f, r.p, rowToInsert.ID),
                       LeafNodeNumCells(r.p.Pages[table.RootPageNum]), rowToInsert.ID)
    IN  fetched(getPage(f, p, table.RootPageNum))

(***************************************************************************)
(* Cursor and select.                                                      *)
(***************************************************************************)
\* [p, err, cursor]
tableStart(f, p) ==
    LET fetched(r) ==
            IF r.err # "ok" THEN FindFailed(r)
            ELSE [p |-> r.p, err |-> "ok",
                  cursor |-> [PageNum |-> table.RootPageNum, CellNum |-> 0,
                              EndOfTable |->
                                  LeafNodeNumCells(r.p.Pages[table.RootPageNum]) = 0]]
    IN  fetched(getPage(f, p, table.RootPageNum))

\* the row slot under the cursor (the page is cached: tableStart fetched it)
cursorValue(p, cursor) == LeafNodeValue(p.Pages[cursor.PageNum], cursor.CellNum)

\* a faulty cursorAdvance, for comparison: the cursor stays on its cell
cursorAdvanceStay(p, cursor) == cursor

cursorAdvance(p, cursor) ==
    [cursor EXCEPT !.CellNum = @ + 1,
                   !.EndOfTable = IF cursor.CellNum + 1 >= LeafNodeNumCells(p.Pages[cursor.PageNum])
                                  THEN TRUE ELSE @]

\* the loop of executeSelect: the rows printed from the cursor on
RECURSIVE selectLoop(_, _, _)
selectLoop(p, cursor, rows) ==
    IF cursor.EndOfTable THEN rows
    ELSE selectLoop(p, cursorAdvance(p, cursor),
                    Append(rows, deserializeRow(cursorValue(p, cursor))))

\* a faulty executeSelect, for comparison: the pages are released after the scan
executeSelectReleasing(f, p) ==
    LET scan(s) ==
            IF s.err # "ok" THEN [p |-> s.p, err |-> s.err, rows |-> << >>]
            ELSE [p |-> [s.p EXCEPT !.Pages = << >>], err |-> "ok",
                  rows |-> selectLoop(s.p, s.cursor, << >>)]
    IN  scan(tableStart(f, p))

\* [p, err, rows]
executeSelect(f, p) ==
    LET scan(s) ==
            IF s.err # "ok" THEN [p |-> s.p, err |-> s.err, rows |-> << >>]
            ELSE [p |-> s.p, err |-> "ok", rows |-> selectLoop(s.p, s.cursor, << >>)]
    IN  scan(tableStart(f, p))

(***************************************************************************)
(* The program: main's REPL over one database file.                        *)
(***************************************************************************)
Printed(op, res, rows) == [op |-> op, res |-> res, rows |-> rows]

\* a file that does not exist yet, and no process
Init ==
    /\ file = [Length |-> 0, Pages |-> << >>]
    /\ pager = NoPager
    /\ table = [RootPageNum |-> 0]
    /\ session = "closed"
    /\ out = Printed("none", "", << >>)
    /\ fresh = FALSE
    /\ accepted = {}
    /\ full = FALSE
    /\ selecting = NoScan
    /\ finding = NoFind

\* the state after dbOpen gave r: on an error main prints it and exits
Opened(r) ==
    /\ pager' = IF r.err = "ok" THEN r.p ELSE NoPager
    /\ session' = IF r.err = "ok" THEN "open" ELSE IF r.err = "panic" THEN "crashed" ELSE "closed"
    /\ out' = Printed("open", IF r.err = "ok" THEN "" ELSE "Error opening database", << >>)
    /\ fresh' = (r.err = "ok" /\ file.Length = 0)

\* main up to the first prompt: dbOpen(filename)
DbOpen ==
    /\ session # "open"
    /\ Opened(dbOpen(file))
    /\ table' = [RootPageNum |-> 0]
    /\ accepted' = {}
    /\ full' = FALSE
    /\ UNCHANGED << file, selecting, finding >>

\* the state after executeInsert gave r for the row: a panic ends the process
\* with nothing flushed
Inserted(row, r) ==
    /\ pager' = IF r.res = PANIC THEN NoPager ELSE r.p
    /\ session' = IF r.res = PANIC THEN "crashed" ELSE "open"
    /\ out' = Printed("insert", r.res, << >>)
    /\ fresh' = (fresh /\ r.res # PANIC)
    /\ accepted' = IF r.res = PANIC THEN {}
                   ELSE IF fresh /\ r.res = EXECUTE_SUCCESS THEN accepted \cup {row}
                   ELSE accepted
    /\ full' = (full \/ r.res = EXECUTE_TABLE_FULL)

\* the line "insert <id> <username> <email>", prepared successfully
Insert(row) ==
    /\ session = "open"
    /\ Inserted(row, executeInsert(file, pager, row))
    /\ UNCHANGED << file, table, selecting, finding >>

\* the state after executeSelect gave r
Selected(r) ==
    /\ pager' = r.p
    /\ out' = Printed("select", EXECUTE_SUCCESS, r.rows)

\* the line "select"
Select ==
    /\ session = "open"
    /\ Selected(executeSelect(file, pager))
    /\ UNCHANGED << file, table, session, fresh, accepted, full, selecting, finding >>

\* the state after dbClose gave c
Closed(c) ==
    /\ file' = c.f
    /\ pager' = c.p

\* the line ".exit": dbClose, "Bye!", os.Exit(0)
Exit ==
    /\ session = "open"
    /\ Closed(dbClose(file, pager))
    /\ session' = "closed"
    /\ out' = Printed("exit", "Bye!", << >>)
    /\ fresh' = FALSE
    /\ accepted' = {}
    /\ full' = FALSE
    /\ UNCHANGED << table, selecting, finding >>

Next ==
    \/ DbOpen
    \/ \E row \in Rows : Insert(row)
    \/ Select
    \/ Exit

Spec == Init /\ [][Next]_vars

(***************************************************************************)
(* Input lines.  A line is the sequence of its bytes, as readInput leaves  *)
(* it in inputBuffer.buffer.                                               *)
(***************************************************************************)
\* the string literals of the source, as bytes
INSERT == << 105, 110, 115, 101, 114, 116 >>
SELECT == << 115, 101, 108, 101, 99, 116 >>
DOT == << 46 >>
DOT_EXIT == << 46, 101, 120, 105, 116 >>
DOT_BTREE == << 46, 98, 116, 114, 101, 101 >>
DOT_CONSTANTS == << 46, 99, 111, 110, 115, 116, 97, 110, 116, 115 >>

PREPARE_SUCCESS == "PREPARE_SUCCESS"
PREPARE_SYNTAX_ERROR == "Syntax error. Could not parse statement."
PREPARE_NEGATIVE_ID == "ID must be positive."
PREPARE_STRING_TOO_LONG == "String is too long."
PREPARE_UNRECOGNIZED_STATEMENT == "Unrecognized keyword at start of '%s'."
STATEMENT_INSERT == "STATEMENT_INSERT"
STATEMENT_SELECT == "STATEMENT_SELECT"
META_COMMAND_SUCCESS == "META_COMMAND_SUCCESS"
META_COMMAND_UNRECOGNIZED_COMMAND == "Unrecognized command '%s'"

\* strings.HasPrefix
HasPrefix(s, prefix) == Len(s) >= Len(prefix) /\ SubSeq(s, 1, Len(prefix)) = prefix

\* unicode.IsSpace on a byte
IsSpace(b) == b \in { 9, 10, 11, 12, 13, 32 }

\* strings.Fields: the maximal runs of bytes that are not white space
Fields(s) ==
    LET starts == { i \in 1..Len(s) : ~IsSpace(s[i]) /\ (i = 1 \/ IsSpace(s[i - 1])) }
        ends == { i \in 1..Len(s) : ~IsSpace(s[i]) /\ (i = Len(s) \/ IsSpace(s[i + 1])) }
        nth(S, k) == CHOOSE x \in S : Cardinality({ y \in S : y < x }) = k - 1
    IN  [k \in 1..Cardinality(starts) |-> SubSeq(s, nth(starts, k), nth(ends, k))]

IsDigit(b) == b \in 48..57

\* An int is kept as its INT_SIZE bytes, lowest byte first, negative values
\* in two's complement: the int of a 64-bit build.
INT_SIZE == 8

\* int(v) of a uint32 v
IntOf(v) == SubSeq([i \in 1..INT_SIZE |-> IF i <= 4 THEN PutUint32(v)[i] ELSE 0], 1, INT_SIZE)

\* the value of the decimal digits t[from..to], after acc: [bytes, over],
\* the low INT_SIZE bytes of the value and whether it went beyond them
RECURSIVE Decimal(_, _, _, _)
Decimal(t, from, to, acc) ==
    IF from > to THEN acc
    ELSE LET carry[i \in 0..INT_SIZE] ==
                 IF i = 0 THEN t[from] - 48 ELSE (10 * acc.bytes[i] + carry[i - 1]) \div 256
             bytes == SubSeq([i \in 1..INT_SIZE |-> (10 * acc.bytes[i] + carry[i - 1]) % 256],
                             1, INT_SIZE)
         IN  Decimal(t, from + 1, to,
                     [bytes |-> bytes, over |-> acc.over \/ carry[INT_SIZE] # 0])

\* fmt.Sscanf(token, "%d", &id): an optional sign and the longest run of
\* digits behind it, what follows the digits is not read; an error when
\* there is no digit or when the number is no value of an int (id is then
\* left as it was declared, 0).  Gives [err, id].
Sscanf(token) ==
    LET signed == token[1] \in { 43, 45 }
        from == IF signed THEN 2 ELSE 1
        digits == CHOOSE k \in 0..(Len(token) - from + 1) :
                      /\ \A j \in from..(from + k - 1) : IsDigit(token[j])
                      /\ from + k > Len(token) \/ ~IsDigit(token[from + k])
        value == Decimal(token, from, from + digits - 1, [bytes |-> IntOf(0), over |-> FALSE])
        minInt == [i \in 1..INT_SIZE |-> IF i = INT_SIZE THEN 128 ELSE 0]
        carry[i \in 0..INT_SIZE] ==
            IF i = 0 THEN 1 ELSE ((255 - value.bytes[i]) + carry[i - 1]) \div 256
        negated == SubSeq([i \in 1..INT_SIZE |-> ((255 - value.bytes[i]) + carry[i - 1]) % 256],
                          1, INT_SIZE)
    IN  IF digits = 0 THEN [err |-> TRUE, id |-> IntOf(0)]
        ELSE IF value.over THEN [err |-> TRUE, id |-> IntOf(0)]
        ELSE IF value.bytes[INT_SIZE] >= 128 /\ ~(token[1] = 45 /\ value.bytes = minInt)
        THEN [err |-> TRUE, id |-> IntOf(0)]
        ELSE [err |-> FALSE, id |-> IF token[1] = 45 THEN negated ELSE value.bytes]

\* var statement Statement
NoRow == [ID |-> 0, Username |-> << >>, Email |-> << >>]

\* a faulty prepareInsert, for comparison: a string that fills its column is
\* rejected too
prepareInsertBelowSize(buffer) ==
    LET prepared(result, row) ==
            [result |-> result, statement |-> [Type |-> STATEMENT_INSERT, RowToInsert |-> row]]
        email(tokens, row) ==
            IF Len(tokens[4]) >= COLUMN_EMAIL_SIZE THEN prepared(PREPARE_STRING_TOO_LONG, row)
            ELSE prepared(PREPARE_SUCCESS,
                          [row EXCEPT !.Email = CopyInto(@, tokens[4], Len(tokens[4]))])
        username(tokens, row) ==
            IF Len(tokens[3]) >= COLUMN_USERNAME_SIZE THEN prepared(PREPARE_STRING_TOO_LONG, row)
            ELSE email(tokens, [row EXCEPT !.Username = CopyInto(@, tokens[3], Len(tokens[3]))])
        scanned(tokens, scan) ==
            IF scan.err THEN prepared(PREPARE_SYNTAX_ERROR, NoRow)
            ELSE IF scan.id[INT_SIZE] >= 128 THEN prepared(PREPARE_NEGATIVE_ID, NoRow)
            ELSE username(tokens, [NoRow EXCEPT !.ID = Uint32(SubSeq(scan.id, 1, 4))])
        split(tokens) ==
            IF Len(tokens) < 4 THEN prepared(PREPARE_SYNTAX_ERROR, NoRow)
            ELSE scanned(tokens, Sscanf(tokens[2]))
    IN  split(Fields(buffer))

\* prepareInsert gives [result, statement]; on an early return the row holds
\* what was stored into it so far
prepareInsert(buffer) ==
    LET prepared(result, row) ==
            [result |-> result, statement |-> [Type |-> STATEMENT_INSERT, RowToInsert |-> row]]
        email(tokens, row) ==
            IF Len(tokens[4]) > COLUMN_EMAIL_SIZE THEN prepared(PREPARE_STRING_TOO_LONG, row)
            ELSE prepared(PREPARE_SUCCESS,
                          [row EXCEPT !.Email = CopyInto(@, tokens[4], Len(tokens[4]))])
        username(tokens, row) ==
            IF Len(tokens[3]) > COLUMN_USERNAME_SIZE THEN prepared(PREPARE_STRING_TOO_LONG, row)
            ELSE email(tokens, [row EXCEPT !.Username = CopyInto(@, tokens[3], Len(tokens[3]))])
        scanned(tokens, scan) ==
            IF scan.err THEN prepared(PREPARE_SYNTAX_ERROR, NoRow)
            ELSE IF scan.id[INT_SIZE] >= 128 THEN prepared(PREPARE_NEGATIVE_ID, NoRow)
            ELSE username(tokens, [NoRow EXCEPT !.ID = Uint32(SubSeq(scan.id, 1, 4))])
        split(tokens) ==
            IF Len(tokens) < 4 THEN prepared(PREPARE_SYNTAX_ERROR, NoRow)
            ELSE scanned(tokens, Sscanf(tokens[2]))
    IN  split(Fields(buffer))

prepareStatement(buffer) ==
    LET unrecognized ==
            [result |-> PREPARE_UNRECOGNIZED_STATEMENT,
             statement |-> [Type |-> STATEMENT_INSERT, RowToInsert |-> NoRow]]
        first(tokens) ==
            IF Len(tokens) = 0 THEN unrecognized
            ELSE IF tokens[1] = INSERT THEN prepareInsert(buffer)
            ELSE IF tokens[1] = SELECT
            THEN [result |-> PREPARE_SUCCESS,
                  statement |-> [Type |-> STATEMENT_SELECT, RowToInsert |-> NoRow]]
            ELSE unrecognized
    IN  first(Fields(buffer))

\* printTree gives [p, err]; what it prints is not kept
RECURSIVE printTree(_, _, _)
RECURSIVE printChildren(_, _, _, _)
printChildren(f, p, pageNum, i) ==
    LET printed(r) == IF r.err # "ok" THEN r ELSE printChildren(f, r.p, pageNum, i + 1)
    IN  IF i < InternalNodeNumKeys(p.Pages[pageNum])
        THEN printed(printTree(f, p, InternalNodeChild(p.Pages[pageNum], i).val))
        ELSE printTree(f, p, InternalNodeRightChild(p.Pages[pageNum]))

printTree(f, p, pageNum) ==
    LET fetched(r) ==
            IF r.err # "ok" THEN r
            ELSE IF GetNodeType(r.p.Pages[pageNum]) = NODE_LEAF THEN r
            ELSE printChildren(f, r.p, pageNum, 0)
    IN  fetched(getPage(f, p, pageNum))

\* doMetaCommand, for a line other than ".exit"
doMetaCommand(buffer) ==
    IF buffer = DOT_BTREE \/ buffer = DOT_CONSTANTS THEN META_COMMAND_SUCCESS
    ELSE META_COMMAND_UNRECOGNIZED_COMMAND

\* the state after ".btree": printTree gave r
TreePrinted(r) ==
    /\ pager' = IF r.err = "panic" THEN NoPager ELSE r.p
    /\ session' = IF r.err = "panic" THEN "crashed" ELSE "open"
    /\ out' = Printed("meta", IF r.err = "ok" THEN "Tree:" ELSE IF r.err = "panic" THEN PANIC
                              ELSE "Error printing tree", << >>)
    /\ fresh' = (fresh /\ r.err # "panic")
    /\ accepted' = IF r.err = "panic" THEN {} ELSE accepted
    /\ UNCHANGED << file, table, full, selecting, finding >>

\* a line that starts with ".": doMetaCommand
MetaCommand(buffer) ==
    /\ session = "open"
    /\ HasPrefix(buffer, DOT)
    /\ IF buffer = DOT_EXIT THEN Exit
       ELSE IF buffer = DOT_BTREE THEN TreePrinted(printTree(file, pager, 0))
       ELSE /\ out' = Printed("meta", IF doMetaCommand(buffer) = META_COMMAND_SUCCESS
                                      THEN "Constants:" ELSE doMetaCommand(buffer), << >>)
            /\ UNCHANGED << file, pager, table, session, fresh, accepted, full, selecting, finding >>

\* n bytes b
Repeat(b, n) == [i \in 1..n |-> b]

\* the words of a line, one space between them
RECURSIVE Join(_)
Join(words) ==
    IF Len(words) = 0 THEN << >>
    ELSE IF Len(words) = 1 THEN words[1]
    ELSE words[1] \o << 32 >> \o Join(Tail(words))

\* the ids, user names and e-mail addresses typed: up to one byte more than
\* the column holds
IdWords == { << 49 >>, << 50 >>, << 45, 49 >>, << 120 >> }
UsernameWords == { << 97 >>, Repeat(98, COLUMN_USERNAME_SIZE), Repeat(99, COLUMN_USERNAME_SIZE + 1) }
EmailWords == { << 101 >>, Repeat(102, COLUMN_EMAIL_SIZE), Repeat(103, COLUMN_EMAIL_SIZE + 1) }

Lines ==
    { Join(<< INSERT, i, u, e >>) : i \in IdWords, u \in UsernameWords, e \in EmailWords }
        \cup { Join(<< INSERT, << 49 >>, << 97 >> >>),
               Join(<< INSERT, << 50 >>, << 97 >>, << 101 >>, << 122 >> >>),
               SELECT, << >>, << 32 >>, << 117, 112, 100, 97, 116, 101 >>,
               DOT_EXIT, DOT_BTREE, DOT_CONSTANTS, DOT_EXIT \o << 32 >> }

\* each of the lines with its words and with what prepareStatement gives for it
TypedLines ==
    { [buffer |-> b, words |-> Fields(b), prepared |-> prepareStatement(b)] : b \in Lines }

\* a faulty main, for comparison: the message is printed and the statement
\* is executed although prepareStatement rejected the line
RejectedButExecuted(line) ==
    /\ session = "open"
    /\ ~HasPrefix(line.buffer, DOT)
    /\ line.prepared.result # PREPARE_SUCCESS
    /\ out' = Printed("prepare", line.prepared.result, << >>)
    /\ pager' = executeInsert(file, pager, line.prepared.statement.RowToInsert).p
    /\ UNCHANGED << file, table, session, fresh, accepted, full, selecting, finding >>

\* a line that prepareStatement rejects: main prints the message and reads
\* the next line
Rejected(line) ==
    /\ session = "open"
    /\ ~HasPrefix(line.buffer, DOT)
    /\ line.prepared.result # PREPARE_SUCCESS
    /\ out' = Printed("prepare", line.prepared.result, << >>)
    /\ UNCHANGED << file, pager, table, session, fresh, accepted, full, selecting, finding >>

\* a line that prepareStatement accepts: executeStatement
Statement(line) ==
    /\ session = "open"
    /\ ~HasPrefix(line.buffer, DOT)
    /\ line.prepared.result = PREPARE_SUCCESS
    /\ IF line.prepared.statement.Type = STATEMENT_INSERT
       THEN Insert(line.prepared.statement.RowToInsert)
       ELSE Select

LineNext ==
    \/ DbOpen
    \/ \E buffer \in Lines : MetaCommand(buffer)
    \/ \E line \in TypedLines : Rejected(line)
    \/ \E line \in TypedLines : Statement(line)

LineSpec == Init /\ [][LineNext]_vars

(***************************************************************************)
(* Opening a file of any length.                                           *)
(***************************************************************************)
MaxFilePages == 2

\* a file of the given length in bytes: an empty root leaf, empty leaves
\* behind it, the last page cut off at the end of the file
FileOfLength(length) ==
    [Length |-> length,
     Pages |-> [i \in 1..((length + PAGE_SIZE - 1) \div PAGE_SIZE) |->
                   IF i = 1 THEN SetNodeRoot(InitializeLeafNode(ZeroPage), TRUE)
                   ELSE InitializeLeafNode(ZeroPage)]]

\* the program is started on a file of any length up to MaxFilePages pages
OpenInit ==
    /\ file \in { FileOfLength(length) : length \in 0..(MaxFilePages * PAGE_SIZE) }
    /\ pager = NoPager
    /\ table = [RootPageNum |-> 0]
    /\ session = "closed"
    /\ out = Printed("none", "", << >>)
    /\ fresh = FALSE
    /\ accepted = {}
    /\ full = FALSE
    /\ selecting = NoScan
    /\ finding = NoFind

OpenNext ==
    \/ DbOpen
    \/ Exit

OpenSpec == OpenInit /\ [][OpenNext]_vars

(***************************************************************************)
(* executeSelect run one iteration of its loop at a time: selecting holds  *)
(* the cursor of the running select, out.rows the rows printed so far.     *)
(***************************************************************************)
\* the line "select" up to the test of the loop: tableStart
SelectStart ==
    /\ session = "open"
    /\ selecting.pc = "idle"
    /\ LET started(s) ==
               /\ pager' = s.p
               /\ IF s.err # "ok"
                  THEN /\ out' = Printed("select", EXECUTE_SUCCESS, << >>)
                       /\ selecting' = NoScan
                  ELSE /\ out' = Printed("select", "", << >>)
                       /\ selecting' = [pc |-> "loop", cursor |-> s.cursor]
       IN  started(tableStart(file, pager))
    /\ UNCHANGED << file, table, session, fresh, accepted, full, finding >>

\* one iteration of the loop: cursorValue, deserializeRow, printRow,
\* cursorAdvance
SelectRow ==
    /\ selecting.pc = "loop"
    /\ ~selecting.cursor.EndOfTable
    /\ out' = [out EXCEPT !.rows =
                  Append(@, deserializeRow(cursorValue(pager, selecting.cursor)))]
    /\ selecting' = [selecting EXCEPT !.cursor = cursorAdvance(pager, selecting.cursor)]
    /\ UNCHANGED << file, pager, table, session, fresh, accepted, full, finding >>

\* the loop is left: return EXECUTE_SUCCESS, main prints "Executed."
SelectDone ==
    /\ selecting.pc = "loop"
    /\ selecting.cursor.EndOfTable
    /\ out' = Printed("select", EXECUTE_SUCCESS, out.rows)
    /\ selecting' = NoScan
    /\ UNCHANGED << file, pager, table, session, fresh, accepted, full, finding >>

\* the rows inserted between the selects: one row for each id (the loop of
\* executeSelect tests num_cells only, never what a row holds)
ScanRows == { row \in Rows : row.Username = << 97 >> }

\* main reads the next line when the statement has returned
ScanNext ==
    \/ selecting.pc = "idle" /\ DbOpen
    \/ selecting.pc = "idle" /\ \E row \in ScanRows : Insert(row)
    \/ selecting.pc = "idle" /\ Exit
    \/ SelectStart
    \/ SelectRow
    \/ SelectDone

\* executeSelect is sequential code of the one thread of the process: a loop
\* iteration that can run does run
ScanSpec ==
    /\ Init
    /\ [][ScanNext]_vars
    /\ WF_vars(SelectRow)
    /\ WF_vars(SelectDone)

(***************************************************************************)
(* tableFind run one page of its descent at a time: finding holds the key  *)
(* looked for, the pages visited so far (the last one is the page the      *)
(* descent is on) and, at the end, the cursor.                             *)
(***************************************************************************)
\* the keys looked for: the ids, a key below and a key above all of them
FindKeys == { 0 } \cup Ids \cup { 5 }

\* tableFind up to the test of the type of the root
FindStart(key) ==
    /\ session = "open"
    /\ finding.pc = "idle"
    /\ LET fetched(r) ==
               /\ pager' = r.p
               /\ finding' = IF r.err # "ok"
                             THEN [NoFind EXCEPT !.pc = "failed", !.key = key]
                             ELSE [NoFind EXCEPT !.pc = "descend", !.key = key,
                                                 !.path = << table.RootPageNum >>]
       IN  fetched(getPage(file, pager, table.RootPageNum))
    /\ UNCHANGED << file, table, session, out, fresh, accepted, full, selecting >>

\* one level of the descent of tableFind: leafNodeFind on a leaf; on an
\* internal node the search of internalNodeFind, InternalNodeChild and getPage
\* of the child.  The result is the pager and the descent after the level.
tableFindLevel(f, p, descent) ==
    LET failed == [descent EXCEPT !.pc = "failed"]
        leaf(c) ==
            [p |-> c.p,
             finding |-> IF c.err # "ok" THEN failed
                         ELSE [descent EXCEPT !.pc = "found", !.cursor = c.cursor]]
        child(childNum, r) ==
            [p |-> r.p,
             finding |-> IF r.err # "ok" THEN failed
                         ELSE IF GetNodeType(r.p.Pages[childNum]) \in { NODE_LEAF, NODE_INTERNAL }
                              THEN [descent EXCEPT !.path = Append(@, childNum)]
                              ELSE failed]
        internal(childNum) ==
            IF childNum.panic
            THEN [p |-> p, finding |-> failed]
            ELSE child(childNum.val, getPage(f, p, childNum.val))
        on(pageNum) ==
            IF GetNodeType(p.Pages[pageNum]) = NODE_LEAF
            THEN leaf(leafNodeFind(f, p, pageNum, descent.key))
            ELSE internal(InternalNodeChild(p.Pages[pageNum],
                              internalSearch(p.Pages[pageNum], descent.key, 0,
                                             InternalNodeNumKeys(p.Pages[pageNum]))))
    IN  on(descent.path[Len(descent.path)])

\* the descent takes its next level
FindStep ==
    /\ finding.pc = "descend"
    /\ LET stepped(r) == pager' = r.p /\ finding' = r.finding
       IN  stepped(tableFindLevel(file, pager, finding))
    /\ UNCHANGED << file, table, session, out, fresh, accepted, full, selecting >>

\* tableFind returns the cursor or the error
FindDone ==
    /\ finding.pc \in { "found", "failed" }
    /\ finding' = NoFind
    /\ UNCHANGED << file, pager, table, session, out, fresh, accepted, full, selecting >>

\* main reads the next line when the statement has returned
FindNext ==
    \/ finding.pc = "idle" /\ DbOpen
    \/ finding.pc = "idle" /\ \E row \in ScanRows : Insert(row)
    \/ finding.pc = "idle" /\ Exit
    \/ \E key \in FindKeys : FindStart(key)
    \/ FindStep
    \/ FindDone

\* tableFind is sequential code of the one thread of the process: a step of
\* the descent that can run does run.  The second conjunct is WF_vars(FindStep)
\* with ENABLED <<FindStep>>_vars written out: the guard of FindStep is
\* finding.pc = "descend", and a level of the descent always changes finding
\* (it ends the descent or lengthens the path).
FindSpec ==
    /\ Init
    /\ [][FindNext]_vars
    /\ ([]<>(finding.pc # "descend") \/ []<><<FindStep>>_vars)
    /\ WF_vars(FindDone)

(***************************************************************************)
(* What a process sees of the table.                                       *)
(***************************************************************************)
\* the contents of page pageNum for a process with pager p on the file f:
\* the cached page, or the page a getPage would load
PageOf(f, p, pageNum) ==
    IF Cached(p, pageNum) THEN p.Pages[pageNum] ELSE loadPage(f, p, pageNum)

PageView(pageNum) == PageOf(file, pager, pageNum)

\* the page numbers of the leaves reached from the root
TreeLeaves ==
    IF GetNodeType(PageView(table.RootPageNum)) = NODE_LEAF THEN { table.RootPageNum }
    ELSE { InternalNodeChild(PageView(table.RootPageNum), i).val :
              i \in 0..InternalNodeNumKeys(PageView(table.RootPageNum)) }

\* the keys of the cells of the leaf on page pageNum
LeafKeys(pageNum) ==
    { LeafNodeKey(PageView(pageNum), i) : i \in 0..(LeafNodeNumCells(PageView(pageNum)) - 1) }

\* the keys stored in the table
StoredKeys == UNION { LeafKeys(n) : n \in TreeLeaves }

\* the rows a select of a process with pager p on the file f prints
SelectRows(f, p) == executeSelect(f, p).rows

\* the rows a select prints in a process started on the file f
SelectRowsAfterOpen(f) == executeSelect(f, dbOpen(f).p).rows

\* the pages of a process with pager p on the file f: contents by page number
AllPages(f, p) == [n \in 0..(p.NumPages - 1) |-> PageOf(f, p, n)]

(***************************************************************************)
(* Properties.                                                             *)
(***************************************************************************)

\* C1: in every reachable state of a running session (root a leaf, root an
\* internal node, after close and reopen) an insert whose key is stored in
\* the table prints "Error: Duplicate key.".
C1_DuplicateKeyRejected ==
    [][\A row \in Rows :
          (session = "open" /\ row.ID \in StoredKeys /\ Insert(row))
              => out'.res = EXECUTE_DUPLICATE_KEY]_vars

\* C2: in every reachable state the keys of every leaf of the tree are
\* strictly ascending: key(i) < key(i+1) for all i in [0, num_cells - 1).
C2_LeafKeysAscending ==
    session = "open" =>
        \A n \in TreeLeaves :
            \A i \in 0..(LeafNodeNumCells(PageView(n)) - 2) :
                LeafNodeKey(PageView(n), i) < LeafNodeKey(PageView(n), i + 1)

\* C3: on a database that was fresh when the process started, a select
\* prints exactly the rows whose insert printed "Executed.", each once, in
\* ascending id order.
C3_SelectEmitsAccepted ==
    (out.op = "select" /\ fresh) =>
        /\ { out.rows[i] : i \in DOMAIN out.rows } = accepted
        /\ \A i, j \in DOMAIN out.rows : i < j => out.rows[i].ID < out.rows[j].ID

\* C4: the ids of the rows a select prints are in ascending order.
C4_SelectAscending ==
    out.op = "select" =>
        \A i, j \in DOMAIN out.rows : i < j => out.rows[i].ID < out.rows[j].ID

\* a select printed CellsPerPage rows, the last of them the row of id 4 with
\* the second username
C4_Witness ==
    /\ out.op = "select"
    /\ Len(out.rows) = CellsPerPage
    /\ out.rows[CellsPerPage].Username = <<98>>

\* C5: the rows a select prints in a process opened on the file that a
\* close left are the rows, in the same order, that a select printed at the
\* end of the closed session.
C5_Persistence ==
    [][(out'.op = "exit" /\ Exit) => SelectRowsAfterOpen(file') = SelectRows(file, pager)]_vars

\* a process started on an existing file prints rows it read from the file
C5_Witness ==
    /\ session = "open"
    /\ pager.FileLength > 0
    /\ out.op = "select"
    /\ Len(out.rows) >= 2
    /\ pager.Pages[table.RootPageNum] = file.Pages[table.RootPageNum + 1]

\* C6: after dbClose, for every page fetched during the session the file
\* bytes at page_num * PAGE_SIZE are the final contents of the cached page,
\* and the file length is a multiple of PAGE_SIZE.
C6_CloseWritesPages ==
    [][(out'.op = "exit" /\ Exit) =>
          /\ \A n \in DOMAIN pager.Pages :
                /\ (n + 1) * PAGE_SIZE <= file'.Length
                /\ file'.Pages[n + 1] = pager.Pages[n]
          /\ file'.Length % PAGE_SIZE = 0]_vars

\* a session that used every page of the cache was closed
C6_Witness ==
    /\ out.op = "exit"
    /\ file.Length = TABLE_MAX_PAGES * PAGE_SIZE

\* C7: an insert that prints "Error: Duplicate key." has modified nothing:
\* num_pages and the contents of every page are as before the call, and a
\* select prints the same rows after it as before it.
C7_DuplicateKeyModifiesNothing ==
    [][(out'.res = EXECUTE_DUPLICATE_KEY /\ \E row \in Rows : Insert(row))
          => /\ pager'.NumPages = pager.NumPages
             /\ AllPages(file', pager') = AllPages(file, pager)
             /\ SelectRows(file', pager') = SelectRows(file, pager)]_vars

\* a duplicate was reported for a table that holds a row of id 4
C7_Witness ==
    /\ out.op = "insert"
    /\ out.res = EXECUTE_DUPLICATE_KEY
    /\ 4 \in StoredKeys

\* C8: an insert that needs a page number >= TABLE_MAX_PAGES is answered
\* with "Error: Table full.": every insert prints one of the three results
\* of the REPL, and the page cache is never indexed at TABLE_MAX_PAGES or
\* beyond (the index out of range is what ends an insert in PANIC).
C8_PageOutOfBoundsIsTableFull ==
    out.op = "insert" =>
        out.res \in { EXECUTE_SUCCESS, EXECUTE_DUPLICATE_KEY, EXECUTE_TABLE_FULL }

\* C9: once an insert of a session has printed "Error: Table full.", the
\* session goes on: no later statement ends the process other than .exit.
C9_SessionSurvivesTableFull == full => session # "crashed"

\* the leaf an insert of the key goes to is not the root and holds
\* LEAF_NODE_MAX_CELLS cells
TargetLeafFull(key) ==
    LET target(c) ==
            /\ c.err = "ok"
            /\ c.cursor.PageNum # table.RootPageNum
            /\ ~IsNodeRoot(c.p.Pages[c.cursor.PageNum])
            /\ LeafNodeNumCells(c.p.Pages[c.cursor.PageNum]) >= LEAF_NODE_MAX_CELLS
    IN  target(tableFind(file, pager, key))

\* C10: an insert whose target leaf holds LEAF_NODE_MAX_CELLS cells and is
\* not the root, and that is not rejected as a duplicate, prints
\* "Error: Table full.".
C10_NonRootSplitIsTableFull ==
    [][\A row \in Rows :
          (session = "open" /\ TargetLeafFull(row.ID) /\ Insert(row)
              /\ out'.res # EXECUTE_DUPLICATE_KEY)
              => out'.res = EXECUTE_TABLE_FULL]_vars

\* the keys of the cells of a leaf node
KeysOf(node) == { LeafNodeKey(node, i) : i \in 0..(LeafNodeNumCells(node) - 1) }

\* the n smallest keys of the set K
Smallest(K, n) == { k \in K : Cardinality({ j \in K : j < k }) < n }

\* the tree of a process with pager p on the file f is a root split of the
\* keys K: page 0 is an internal root with one key, the left child holds the
\* LEAF_NODE_LEFT_SPLIT_COUNT smallest keys of K, the right child the others,
\* and the key of the root is the largest key of the left child
IsRootSplitOf(f, p, K) ==
    LET leaves(root, left, right) ==
            /\ GetNodeType(left) = NODE_LEAF
            /\ GetNodeType(right) = NODE_LEAF
            /\ LeafNodeNumCells(left) = LEAF_NODE_LEFT_SPLIT_COUNT
            /\ LeafNodeNumCells(right) = LEAF_NODE_RIGHT_SPLIT_COUNT
            /\ KeysOf(left) = Smallest(K, LEAF_NODE_LEFT_SPLIT_COUNT)
            /\ KeysOf(right) = K \ Smallest(K, LEAF_NODE_LEFT_SPLIT_COUNT)
            /\ \A k \in KeysOf(left) : k <= InternalNodeKey(root, 0)
            /\ InternalNodeKey(root, 0) \in KeysOf(left)
        split(root) ==
            /\ GetNodeType(root) = NODE_INTERNAL
            /\ IsNodeRoot(root)
            /\ InternalNodeNumKeys(root) = 1
            /\ leaves(root, PageOf(f, p, InternalNodeChild(root, 0).val),
                      PageOf(f, p, InternalNodeRightChild(root)))
    IN  split(PageOf(f, p, 0))

\* C11: when the insert of a new key finds the root leaf holding
\* LEAF_NODE_MAX_CELLS keys (so LEAF_NODE_MAX_CELLS + 1 distinct keys are
\* stored afterwards, in whatever order they came), page 0 becomes an
\* internal root with is_root set and num_keys = 1, cell[0].key is the
\* largest key of the left leaf, cell[0].child is a leaf with the
\* LEAF_NODE_LEFT_SPLIT_COUNT smallest keys and right_child a leaf with the
\* LEAF_NODE_RIGHT_SPLIT_COUNT largest keys.
C11_RootSplit ==
    [][\A row \in Rows :
          (/\ session = "open"
           /\ GetNodeType(PageView(0)) = NODE_LEAF
           /\ LeafNodeNumCells(PageView(0)) = LEAF_NODE_MAX_CELLS
           /\ row.ID \notin LeafKeys(0)
           /\ Insert(row))
              => /\ out'.res = EXECUTE_SUCCESS
                 /\ IsRootSplitOf(file', pager', LeafKeys(0) \cup { row.ID })]_vars

\* a fresh database right after the insert of its (LEAF_NODE_MAX_CELLS + 1)th
\* key: the root is internal
C11_Witness ==
    /\ fresh
    /\ out.op = "insert"
    /\ out.res = EXECUTE_SUCCESS
    /\ Cardinality(accepted) = LEAF_NODE_MAX_CELLS + 1
    /\ GetNodeType(PageView(0)) = NODE_INTERNAL

\* the pager through which the table is seen: the pager of the running
\* process, and with no process the pager an open of the file would start with
SeenPager == IF session = "open" THEN pager ELSE pagerOpen(file).p

\* page pageNum of the table as seen
Seen(pageNum) == PageOf(file, SeenPager, pageNum)

\* the child page numbers stored in the internal node: the child of every
\* cell and right_child
ChildrenOf(node) ==
    { InternalNodeChild(node, i).val : i \in 0..InternalNodeNumKeys(node) }

\* C12: in every reachable state in which the root is an internal node,
\* every key of the leaf under cell i's child is <= cell[i].key and every key
\* of the right_child leaf is > the last cell key.
C12_KeysWithinSeparators ==
    GetNodeType(Seen(0)) = NODE_INTERNAL /\ SeenPager.NumPages > 0 =>
        /\ \A i \in 0..(InternalNodeNumKeys(Seen(0)) - 1) :
              \A k \in KeysOf(Seen(InternalNodeChild(Seen(0), i).val)) :
                  k <= InternalNodeKey(Seen(0), i)
        /\ \A k \in KeysOf(Seen(InternalNodeRightChild(Seen(0)))) :
              k > InternalNodeKey(Seen(0), InternalNodeNumKeys(Seen(0)) - 1)

\* the root is internal, an insert of this process has failed with
\* "Error: Table full." and a later insert was accepted
C12_Witness ==
    /\ session = "open"
    /\ GetNodeType(Seen(0)) = NODE_INTERNAL
    /\ full
    /\ out.op = "insert"
    /\ out.res = EXECUTE_SUCCESS

\* C13: in every reachable state every child page number stored in an
\* internal node is < num_pages, also for the pager a reopen starts with.
C13_ChildrenAllocated ==
    \A n \in 0..(SeenPager.NumPages - 1) :
        GetNodeType(Seen(n)) = NODE_INTERNAL =>
            \A c \in ChildrenOf(Seen(n)) : c < SeenPager.NumPages

\* a file with an internal root was closed
C13_Witness ==
    /\ session = "closed"
    /\ SeenPager.NumPages >= 3
    /\ GetNodeType(Seen(0)) = NODE_INTERNAL

\* C14: the tree has at most two levels: the root is a leaf as long as no
\* leaf was split (page 0 is the only page), and an internal root has
\* num_keys = 1 and two leaves as children; no other page is an internal node.
C14_TwoLevels ==
    SeenPager.NumPages > 0 =>
        /\ GetNodeType(Seen(0)) = NODE_LEAF => SeenPager.NumPages = 1
        /\ GetNodeType(Seen(0)) = NODE_INTERNAL =>
              /\ InternalNodeNumKeys(Seen(0)) = 1
              /\ \A c \in ChildrenOf(Seen(0)) : GetNodeType(Seen(c)) = NODE_LEAF
        /\ \A n \in 1..(SeenPager.NumPages - 1) : GetNodeType(Seen(n)) = NODE_LEAF

\* every page of the cache is in use and the root is internal
C14_Witness ==
    /\ session = "open"
    /\ pager.NumPages = TABLE_MAX_PAGES
    /\ GetNodeType(Seen(0)) = NODE_INTERNAL

\* C15: root_page_num is 0 in every state; whenever there is a table, page 0
\* has is_root set and no other page has.
C15_RootIsPageZero ==
    /\ table.RootPageNum = 0
    /\ SeenPager.NumPages > 0 =>
          /\ IsNodeRoot(Seen(0))
          /\ \A n \in 1..(SeenPager.NumPages - 1) : ~IsNodeRoot(Seen(n))

\* the root was promoted: page 0 is an internal node and the old root's
\* cells are on another page
C15_Witness ==
    /\ session = "open"
    /\ GetNodeType(Seen(0)) = NODE_INTERNAL
    /\ pager.NumPages = 3


\* a file of exactly one page, an empty leaf that is the root
IsEmptyDatabase(f) ==
    /\ f.Length = PAGE_SIZE
    /\ Len(f.Pages) = 1
    /\ GetNodeType(f.Pages[1]) = NODE_LEAF
    /\ IsNodeRoot(f.Pages[1])
    /\ LeafNodeNumCells(f.Pages[1]) = 0

\* C16: ".exit" directly after the open of an empty (or missing) file leaves
\* a file of exactly PAGE_SIZE bytes whose page 0 is a leaf with is_root set
\* and num_cells = 0, and ".exit" directly after the open of that file
\* leaves the file as it was.
C16_OpenCloseFreshFile ==
    [][(out.op = "open" /\ out'.op = "exit" /\ Exit)
          => /\ file.Length = 0 => IsEmptyDatabase(file')
             /\ IsEmptyDatabase(file) => file' = file]_vars

\* the one-page empty database file was opened a second time and closed
C16_Witness ==
    /\ session = "closed"
    /\ out.op = "exit"
    /\ IsEmptyDatabase(file)
    /\ pager.FileLength = PAGE_SIZE
    /\ pager.NumPages = 1
    /\ \A i \in 0..(TABLE_MAX_PAGES - 1) : ~Cached(pager, i)


\* C17: the open of a file whose length is not a multiple of PAGE_SIZE fails
\* and leaves no table and no pager; for a file whose length is a multiple of
\* PAGE_SIZE pagerOpen gives a pager with num_pages * PAGE_SIZE = the length
\* of the file and every cache slot empty, which is the pager of the table
\* unless the file is empty (then dbOpen goes on to make page 0).
C17_OpenChecksLength ==
    [][DbOpen =>
          IF file.Length % PAGE_SIZE # 0
          THEN /\ session' = "closed"
               /\ pager' = NoPager
               /\ out'.res = "Error opening database"
          ELSE /\ session' = "open"
               /\ pagerOpen(file).err = "ok"
               /\ pagerOpen(file).p.NumPages * PAGE_SIZE = file.Length
               /\ \A i \in 0..(TABLE_MAX_PAGES - 1) : ~Cached(pagerOpen(file).p, i)
               /\ file.Length > 0 => pager' = pagerOpen(file).p]_vars

\* the open of a file that ends one byte behind its first page has failed
C17_Witness ==
    /\ file.Length = PAGE_SIZE + 1
    /\ out.op = "open"
    /\ out.res = "Error opening database"
    /\ session = "closed"


\* the cell of the leaf node that holds the key, read back with deserializeRow
StoredRows(node, key) ==
    { deserializeRow(LeafNodeValue(node, i)) :
        i \in { j \in 0..(LeafNodeNumCells(node) - 1) : LeafNodeKey(node, j) = key } }

\* C18: the record an executed insert has stored into a cell of the root leaf
\* reads back with the id, the user name and the e-mail address it was
\* given, also when the cell held another record before the insert: nothing
\* of the earlier record is left in it.
C18_RoundTrip ==
    [][\A line \in TypedLines :
          (/\ out'.op = "insert"
           /\ out'.res = EXECUTE_SUCCESS
           /\ Statement(line)
           /\ GetNodeType(PageOf(file', pager', 0)) = NODE_LEAF)
              => StoredRows(PageOf(file', pager', 0), line.prepared.statement.RowToInsert.ID)
                     = { line.prepared.statement.RowToInsert }]_vars

\* a record of one-byte strings is in cell 0 of the root leaf, in front of a
\* record with strings of the full column widths
C18_Witness ==
    /\ session = "open"
    /\ out.op = "insert"
    /\ out.res = EXECUTE_SUCCESS
    /\ GetNodeType(PageView(0)) = NODE_LEAF
    /\ LeafNodeNumCells(PageView(0)) = 2
    /\ deserializeRow(LeafNodeValue(PageView(0), 0)) = [ID |-> 1, Username |-> << 97 >>, Email |-> << 101 >>]
    /\ deserializeRow(LeafNodeValue(PageView(0), 1)) =
           [ID |-> 2, Username |-> Repeat(98, COLUMN_USERNAME_SIZE),
            Email |-> Repeat(102, COLUMN_EMAIL_SIZE)]

\* an insert line of at least four words whose second word reads as an id >= 0
IsInsertOfId(words) ==
    /\ Len(words) >= 4
    /\ words[1] = INSERT
    /\ ~Sscanf(words[2]).err
    /\ Sscanf(words[2]).id[INT_SIZE] < 128

\* the lines select prints for the rows
Emitted(rows) == { printRow(rows[i]) : i \in 1..Len(rows) }

\* C19: an insert line with a readable id >= 0 is answered with
\* "String is too long." exactly when its user name has more than
\* COLUMN_USERNAME_SIZE bytes or its e-mail address more than
\* COLUMN_EMAIL_SIZE bytes; when it is executed into the root leaf (strings
\* of exactly the column widths included), select emits the id with both
\* strings as they were typed.
C19_StringTooLong ==
    [][\A line \in TypedLines :
          /\ (out'.op = "prepare" /\ Rejected(line) /\ IsInsertOfId(line.words))
                 => /\ out'.res = PREPARE_STRING_TOO_LONG
                    /\ \/ Len(line.words[3]) > COLUMN_USERNAME_SIZE
                       \/ Len(line.words[4]) > COLUMN_EMAIL_SIZE
          /\ (/\ out'.op = "insert"
              /\ line.prepared.result = PREPARE_SUCCESS
              /\ IsInsertOfId(line.words)
              /\ Statement(line))
                 => /\ Len(line.words[3]) <= COLUMN_USERNAME_SIZE
                    /\ Len(line.words[4]) <= COLUMN_EMAIL_SIZE
                    /\ (/\ out'.res = EXECUTE_SUCCESS
                        /\ GetNodeType(PageOf(file', pager', 0)) = NODE_LEAF)
                           => \E row \in Emitted(SelectRows(file', pager')) :
                                 /\ IntOf(row.id) = Sscanf(line.words[2]).id
                                 /\ row.username = line.words[3]
                                 /\ row.email = line.words[4]]_vars

\* select has emitted a row whose strings fill their columns
C19_Witness ==
    /\ out.op = "select"
    /\ [id |-> 1, username |-> Repeat(98, COLUMN_USERNAME_SIZE),
        email |-> Repeat(102, COLUMN_EMAIL_SIZE)] \in Emitted(out.rows)

\* C20: a line rejected by prepareStatement (negative id, syntax error,
\* string too long, unrecognized keyword) is not executed: the file, the
\* pager with num_pages and every page, and the rows a select emits are the
\* same after it as before.
C20_RejectedNotExecuted ==
    [][(out'.op = "prepare" /\ \E line \in TypedLines : Rejected(line))
          => /\ out'.res \in { PREPARE_NEGATIVE_ID, PREPARE_SYNTAX_ERROR,
                              PREPARE_STRING_TOO_LONG, PREPARE_UNRECOGNIZED_STATEMENT }
             /\ file' = file
             /\ pager' = pager
             /\ AllPages(file', pager') = AllPages(file, pager)
             /\ SelectRows(file', pager') = SelectRows(file, pager)]_vars

\* "insert -1 ..." was rejected on an empty table, whose select emits nothing
C20_Witness ==
    /\ session = "open"
    /\ out.op = "prepare"
    /\ out.res = PREPARE_NEGATIVE_ID
    /\ fresh
    /\ accepted = {}
    /\ SelectRows(file, pager) = << >>

\* C21: an insert line whose number of words is not four (three words, five
\* words) is answered with "Syntax error. Could not parse statement." and
\* nothing is inserted: the pager and the file stay as they were.
C21_ExactlyFourTokens ==
    [][\A line \in TypedLines :
          (/\ Len(line.words) >= 1
           /\ line.words[1] = INSERT
           /\ Len(line.words) # 4
           /\ out'.op \in { "prepare", "insert" }
           /\ Rejected(line) \/ Statement(line))
              => /\ out'.res = PREPARE_SYNTAX_ERROR
                 /\ pager' = pager
                 /\ file' = file]_vars

\* C22: on every step of a running session num_pages does not decrease and
\* every cached page stays cached; a step that writes no page (a select, an
\* insert answered with "Error: Duplicate key.") leaves the contents of every
\* cached page as they were, so no slot is loaded from the file again.
C22_CacheMonotone ==
    [][(session = "open" /\ session' = "open")
          => /\ pager'.NumPages >= pager.NumPages
             /\ \A n \in DOMAIN pager.Pages :
                   /\ Cached(pager', n)
                   /\ (out'.op = "select" \/ out'.res = EXECUTE_DUPLICATE_KEY)
                         => pager'.Pages[n] = pager.Pages[n]]_vars

\* a session on a file of three pages has loaded all three and keeps them
C22_Witness ==
    /\ session = "open"
    /\ pager.FileLength >= 3 * PAGE_SIZE
    /\ out.op = "select"
    /\ \A n \in 0..2 : Cached(pager, n)

\* the cells of a leaf node, each a key with its record
CellsOf(node) == { LeafNodeCell(node, i) : i \in 0..(LeafNodeNumCells(node) - 1) }

\* the keys of the leaf node are strictly ascending
IsAscending(node) ==
    \A i \in 0..(LeafNodeNumCells(node) - 2) : LeafNodeKey(node, i) < LeafNodeKey(node, i + 1)

\* the cell leafNodeInsert or the split writes for the row
CellOfRow(row) ==
    [key |-> row.ID, id |-> row.ID, username |-> Trim(row.Username), email |-> Trim(row.Email)]

\* C23: when an insert splits a full leaf with strictly ascending keys at the
\* cursor tableFind gives for a key that is not in the leaf (any position
\* 0..LEAF_NODE_MAX_CELLS, root leaf or not), the old leaf is left with
\* LEAF_NODE_LEFT_SPLIT_COUNT cells and the new leaf with
\* LEAF_NODE_RIGHT_SPLIT_COUNT cells, together they hold the cells of before
\* and the new one, each key with its record, both are strictly ascending and
\* every key of the old leaf is smaller than every key of the new leaf.
C23_SplitCounts ==
    [][\A row \in Rows :
          LET isSplit(old, new, before) ==
                  /\ GetNodeType(old) = NODE_LEAF
                  /\ GetNodeType(new) = NODE_LEAF
                  /\ LeafNodeNumCells(old) = LEAF_NODE_LEFT_SPLIT_COUNT
                  /\ LeafNodeNumCells(new) = LEAF_NODE_RIGHT_SPLIT_COUNT
                  /\ CellsOf(old) \cup CellsOf(new) = CellsOf(before) \cup { CellOfRow(row) }
                  /\ Cardinality(CellsOf(old) \cup CellsOf(new)) = LEAF_NODE_MAX_CELLS + 1
                  /\ IsAscending(old)
                  /\ IsAscending(new)
                  /\ \A k \in KeysOf(old) : \A j \in KeysOf(new) : k < j
              \* the old leaf after the step: a split root leaf is the left
              \* child of the new root
              oldAfter(c) ==
                  IF c.cursor.PageNum = table.RootPageNum
                  THEN PageOf(file', pager', InternalNodeChild(PageOf(file', pager', 0), 0).val)
                  ELSE PageOf(file', pager', c.cursor.PageNum)
              found(c) ==
                  (/\ c.err = "ok"
                   /\ LeafNodeNumCells(c.p.Pages[c.cursor.PageNum]) = LEAF_NODE_MAX_CELLS
                   /\ IsAscending(c.p.Pages[c.cursor.PageNum])
                   /\ row.ID \notin KeysOf(c.p.Pages[c.cursor.PageNum])
                   /\ Insert(row))
                      => isSplit(oldAfter(c), PageOf(file', pager', pager.NumPages),
                                 c.p.Pages[c.cursor.PageNum])
          IN  (/\ session = "open"
               /\ pager.NumPages < TABLE_MAX_PAGES
               /\ out'.op = "insert"
               /\ out'.res \in { EXECUTE_SUCCESS, EXECUTE_TABLE_FULL })
                  => found(tableFind(file, pager, row.ID))]_vars

\* a leaf that is not the root was split: the insert was answered with
\* "Error: Table full.", the leaf under cell 0 of the root holds
\* LEAF_NODE_LEFT_SPLIT_COUNT cells and the page taken for the split holds the rest
C23_Witness ==
    /\ session = "open"
    /\ out.op = "insert"
    /\ out.res = EXECUTE_TABLE_FULL
    /\ pager.NumPages = TABLE_MAX_PAGES
    /\ GetNodeType(PageView(0)) = NODE_INTERNAL
    /\ LeafNodeNumCells(PageView(TABLE_MAX_PAGES - 1)) = LEAF_NODE_RIGHT_SPLIT_COUNT
    /\ \A k \in LeafKeys(InternalNodeChild(PageView(0), 0).val) :
          \A j \in LeafKeys(TABLE_MAX_PAGES - 1) : k < j

\* C24: for every page of a running session that is a leaf with strictly
\* ascending keys and every probe key, leafNodeFind gives a cursor on that
\* page whose cell_num is the index of the cell that holds the key, or, when
\* no cell holds it, the smallest index whose key is greater than the probe
\* (num_cells if there is none).
C24_LeafNodeFind ==
    session = "open" =>
        \A n \in 0..(pager.NumPages - 1) : \A key \in 0..5 :
            LET node == PageView(n)
                at(c) ==
                    /\ c.err = "ok"
                    /\ c.cursor.PageNum = n
                    /\ c.cursor.CellNum <= LeafNodeNumCells(node)
                    /\ IF key \in KeysOf(node)
                       THEN /\ c.cursor.CellNum < LeafNodeNumCells(node)
                            /\ LeafNodeKey(node, c.cursor.CellNum) = key
                       ELSE /\ \A i \in 0..(c.cursor.CellNum - 1) : LeafNodeKey(node, i) < key
                            /\ \A i \in c.cursor.CellNum..(LeafNodeNumCells(node) - 1) :
                                  LeafNodeKey(node, i) > key
            IN  (GetNodeType(node) = NODE_LEAF /\ IsAscending(node))
                    => at(leafNodeFind(file, pager, n, key))

\* a full leaf under an internal root holds the keys 1 and 3: the probes 1
\* and 3 are found, the probe 2 has its place between them
C24_Witness ==
    /\ session = "open"
    /\ GetNodeType(PageView(0)) = NODE_INTERNAL
    /\ \E n \in TreeLeaves : Cached(pager, n) /\ LeafKeys(n) = { 1, 3 }

\* C25: while the root of a running session is an internal node, for every
\* probe key internalNodeFind on the root gives the cursor leafNodeFind gives
\* on the child at the smallest index whose cell key is >= the probe, the
\* right child when no cell key is; with the one key of the root a probe
\* <= cell[0].key is searched in the left leaf and a larger one in the right.
C25_InternalNodeFind ==
    (session = "open" /\ GetNodeType(PageView(0)) = NODE_INTERNAL) =>
        \A key \in 0..5 :
            LET root == PageView(0)
                descended(c, i) ==
                    /\ c.err = "ok"
                    /\ c.cursor.PageNum = InternalNodeChild(root, i).val
                    /\ c.cursor = leafNodeFind(file, pager, InternalNodeChild(root, i).val, key).cursor
                    /\ (InternalNodeNumKeys(root) = 1 /\ key <= InternalNodeKey(root, 0))
                          => c.cursor.PageNum = InternalNodeChild(root, 0).val
                    /\ (InternalNodeNumKeys(root) = 1 /\ key > InternalNodeKey(root, 0))
                          => c.cursor.PageNum = InternalNodeRightChild(root)
            IN  \E i \in 0..InternalNodeNumKeys(root) :
                    /\ i = InternalNodeNumKeys(root) \/ InternalNodeKey(root, i) >= key
                    /\ \A j \in 0..(i - 1) : InternalNodeKey(root, j) < key
                    /\ descended(internalNodeFind(file, pager, 0, key), i)

\* an insert after the root split was sent to a leaf by internalNodeFind and
\* was executed
C25_Witness ==
    /\ session = "open"
    /\ fresh
    /\ GetNodeType(PageView(0)) = NODE_INTERNAL
    /\ out.op = "insert"
    /\ out.res = EXECUTE_SUCCESS
    /\ Cardinality({ row.ID : row \in accepted }) = LEAF_NODE_MAX_CELLS + 2

\* C26: an insert answered with "Executed." whose leaf, at the cursor of
\* tableFind, holds n < LEAF_NODE_MAX_CELLS cells leaves that leaf with n + 1
\* cells, the key and the record of the row in cell cell_num, the cells that
\* were in [cell_num, n) one slot to the right as they were, the cells in
\* [0, cell_num) and the header of the leaf as they were; every other page
\* and num_pages are unchanged.
C26_LeafInsertFrame ==
    [][\A row \in Rows :
          LET inserted(before, after, cellNum, n) ==
                  /\ LeafNodeNumCells(after) = n + 1
                  /\ LeafNodeCell(after, cellNum) = CellOfRow(row)
                  /\ \A i \in cellNum..(n - 1) : LeafNodeCell(after, i + 1) = LeafNodeCell(before, i)
                  /\ \A i \in 0..(cellNum - 1) : LeafNodeCell(after, i) = LeafNodeCell(before, i)
                  /\ GetNodeType(after) = NODE_LEAF
                  /\ IsNodeRoot(after) = IsNodeRoot(before)
                  /\ nodeParent(after) = nodeParent(before)
              found(c) ==
                  (/\ c.err = "ok"
                   /\ LeafNodeNumCells(c.p.Pages[c.cursor.PageNum]) < LEAF_NODE_MAX_CELLS)
                      => \/ /\ pager'.NumPages = pager.NumPages
                            /\ inserted(c.p.Pages[c.cursor.PageNum],
                                        PageOf(file', pager', c.cursor.PageNum),
                                        c.cursor.CellNum,
                                        LeafNodeNumCells(c.p.Pages[c.cursor.PageNum]))
                            /\ \A m \in 0..(pager.NumPages - 1) :
                                  m # c.cursor.PageNum
                                     => PageOf(file', pager', m) = PageOf(file, pager, m)
                         \* or the step is not the insert of this row
                         \/ ~Insert(row)
          IN  (/\ session = "open"
               /\ out'.op = "insert"
               /\ out'.res = EXECUTE_SUCCESS
               \* in a session on a new file the row is the one accepted
               /\ fresh => accepted' = accepted \cup { row })
                  => found(tableFind(file, pager, row.ID))]_vars

\* an insert into the right leaf of a split root was executed in front of the
\* one cell the split had left there: the leaf holds the key 4 twice (the
\* cursor of an equal key is the cell of that key), and no page was taken
C26_Witness ==
    /\ session = "open"
    /\ out.op = "insert"
    /\ out.res = EXECUTE_SUCCESS
    /\ GetNodeType(PageView(0)) = NODE_INTERNAL
    /\ pager.NumPages = 3
    /\ LeafNodeNumCells(PageView(InternalNodeRightChild(PageView(0)))) = 2
    /\ LeafNodeKey(PageView(InternalNodeRightChild(PageView(0))), 0) = 4
    /\ LeafNodeKey(PageView(InternalNodeRightChild(PageView(0))), 1) = 4

\* C27: InternalNodeChild(node, child_num) is the child field of cell
\* child_num when child_num < num_keys, the right child when
\* child_num = num_keys, and a panic when child_num > num_keys. Checked on
\* every page of the running session read as an internal node (a leaf's
\* num_cells is then its num_keys), for child_num up to two past the largest
\* num_keys; in an internal root the two answers are the two leaves.
C27_InternalNodeChild ==
    session = "open" =>
        \A n \in 0..(pager.NumPages - 1) :
            LET answers(node, numKeys) ==
                    \A childNum \in 0..(LEAF_NODE_MAX_CELLS + 2) :
                        LET r == InternalNodeChild(node, childNum)
                        IN  /\ childNum < numKeys =>
                                /\ ~r.panic
                                /\ r.val = Uint32(PutUint32(
                                       ReadU32(node, INTERNAL_NODE_HEADER_SIZE
                                                     + childNum * INTERNAL_NODE_CELL_SIZE)))
                            /\ childNum = numKeys =>
                                /\ ~r.panic
                                /\ r.val = ReadU32(node, INTERNAL_NODE_RIGHT_CHILD_OFFSET)
                            /\ childNum > numKeys => r.panic
                children(node) ==
                    GetNodeType(node) = NODE_INTERNAL =>
                        /\ InternalNodeNumKeys(node) = 1
                        /\ InternalNodeChild(node, 0).val # InternalNodeChild(node, 1).val
                        /\ \A i \in 0..1 :
                              /\ InternalNodeChild(node, i).val \in 1..(pager.NumPages - 1)
                              /\ GetNodeType(PageView(InternalNodeChild(node, i).val)) = NODE_LEAF
            IN  /\ answers(PageView(n), ReadU32(PageView(n), INTERNAL_NODE_NUM_KEYS_OFFSET))
                /\ children(PageView(n))

\* an internal root with one key: child 0 and child 1 are answered, child 2
\* is refused
C27_Witness ==
    /\ session = "open"
    /\ GetNodeType(PageView(0)) = NODE_INTERNAL
    /\ InternalNodeNumKeys(PageView(0)) = 1
    /\ ~InternalNodeChild(PageView(0), 0).panic
    /\ InternalNodeChild(PageView(0), 1).val = InternalNodeRightChild(PageView(0))
    /\ InternalNodeChild(PageView(0), 2).panic

\* C28: getPage on a cached page returns that page and leaves the pager as it
\* is; on an uncached page number at or beyond the page count of the file it
\* installs a zero-filled page and sets num_pages to page_num + 1 when
\* page_num >= num_pages; on an uncached page below the page count of the file
\* it installs the contents of the page in the file. Stated for every page
\* number the running program asks for: the pages of the table and the page
\* number getUnusedPageNum hands to the next split.
C28_GetPageFrame ==
    session = "open" =>
        \A pageNum \in 0..getUnusedPageNum(pager) :
            LET installed(r, page) ==
                    /\ r.err = "ok"
                    /\ Cached(r.p, pageNum)
                    /\ r.p.Pages[pageNum] = page
                    /\ \A n \in DOMAIN pager.Pages : r.p.Pages[n] = pager.Pages[n]
                    /\ DOMAIN r.p.Pages = (DOMAIN pager.Pages) \cup { pageNum }
                    /\ r.p.FileLength = pager.FileLength
                    /\ r.p.NumPages = IF pageNum >= pager.NumPages
                                      THEN pageNum + 1 ELSE pager.NumPages
                fetched(r) ==
                    IF Cached(pager, pageNum)
                    THEN r.err = "ok" /\ r.p = pager
                    ELSE IF pageNum >= Len(file.Pages)
                    THEN installed(r, ZeroPage)
                    ELSE installed(r, file.Pages[pageNum + 1])
            IN  fetched(getPage(file, pager, pageNum))

\* C29: executeSelect terminates in every reachable state, the root a leaf or
\* an internal node. tableStart puts the cursor on cell 0 of the root page,
\* at the end of the table when the num_cells field of that page is 0; each
\* iteration prints one row and cursorAdvance moves the cursor one cell on,
\* to the end of the table as soon as cell_num >= num_cells; the rows printed
\* never outnumber num_cells, none is printed for an empty root leaf, and
\* every select that was started returns.
C29_SelectTerminates ==
    /\ [][SelectStart =>
             /\ selecting'.pc = "loop"
             /\ selecting'.cursor.PageNum = table.RootPageNum
             /\ selecting'.cursor.CellNum = 0
             /\ selecting'.cursor.EndOfTable
                   = (LeafNodeNumCells(PageOf(file, pager, table.RootPageNum)) = 0)]_vars
    /\ [][SelectRow =>
             /\ selecting'.cursor.PageNum = selecting.cursor.PageNum
             /\ selecting'.cursor.CellNum = selecting.cursor.CellNum + 1
             /\ selecting'.cursor.EndOfTable
                   = (selecting'.cursor.CellNum
                         >= LeafNodeNumCells(PageView(selecting.cursor.PageNum)))
             /\ Len(out'.rows) = Len(out.rows) + 1]_vars
    /\ [](selecting.pc = "loop" =>
             /\ Len(out.rows) = selecting.cursor.CellNum
             /\ Len(out.rows) <= LeafNodeNumCells(PageView(table.RootPageNum))
             /\ selecting.cursor.EndOfTable
                   = (selecting.cursor.CellNum
                         >= LeafNodeNumCells(PageView(table.RootPageNum))))
    /\ [][SelectDone =>
             /\ Len(out'.rows) = LeafNodeNumCells(PageView(table.RootPageNum))
             /\ out'.res = EXECUTE_SUCCESS]_vars
    /\ (selecting.pc = "loop") ~> (selecting.pc = "idle")

\* a select over an internal root has returned with the one row the root's
\* num_keys field stands for
C29_Witness ==
    /\ session = "open"
    /\ selecting.pc = "idle"
    /\ out.op = "select"
    /\ out.res = EXECUTE_SUCCESS
    /\ GetNodeType(PageView(table.RootPageNum)) = NODE_INTERNAL
    /\ Len(out.rows) = 1

\* C30: an insert answered with "Error: Table full." leaves the table as it
\* was: num_pages, the contents of every page, and with them every key that
\* tableFind found before the insert.
C30_FailedInsertChangesNothing ==
    [][(session = "open" /\ out'.op = "insert" /\ out'.res = EXECUTE_TABLE_FULL)
          => /\ pager'.NumPages = pager.NumPages
             /\ \A n \in 0..(pager.NumPages - 1) :
                   PageOf(file', pager', n) = PageOf(file, pager, n)
             /\ \A key \in Ids :
                   LET holds(c) ==
                           /\ c.err = "ok"
                           /\ c.cursor.CellNum < LeafNodeNumCells(c.p.Pages[c.cursor.PageNum])
                           /\ LeafNodeKey(c.p.Pages[c.cursor.PageNum], c.cursor.CellNum) = key
                   IN  holds(tableFind(file, pager, key))
                          => holds(tableFind(file', pager', key))]_vars

\* C31: an insert is answered with "Error: Duplicate key." only if its key is
\* stored: the key is in a cell of a leaf page of the table (of any page
\* below num_pages, the pages no parent points to included).
C31_DuplicateOnlyIfStored ==
    [][\A row \in Rows :
          (/\ session = "open"
           /\ out'.op = "insert"
           /\ out'.res = EXECUTE_DUPLICATE_KEY
           /\ Insert(row))
              => \E n \in 0..(pager.NumPages - 1) :
                    /\ GetNodeType(PageView(n)) = NODE_LEAF
                    /\ row.ID \in LeafKeys(n)]_vars

\* C32: every leaf page, in memory or in the file, has
\* num_cells <= LEAF_NODE_MAX_CELLS, so each of its cells, and the cell that
\* leafNodeInsert writes behind the last one of a leaf that is not full, ends
\* inside the PAGE_SIZE bytes of the page.
C32_LeafWithinPage ==
    LET within(node) ==
            GetNodeType(node) = NODE_LEAF =>
                /\ LeafNodeNumCells(node) <= LEAF_NODE_MAX_CELLS
                /\ LEAF_NODE_HEADER_SIZE + LeafNodeNumCells(node) * LEAF_NODE_CELL_SIZE
                      <= PAGE_SIZE
                /\ LeafNodeNumCells(node) < LEAF_NODE_MAX_CELLS =>
                      LEAF_NODE_HEADER_SIZE
                          + (LeafNodeNumCells(node) + 1) * LEAF_NODE_CELL_SIZE <= PAGE_SIZE
    IN  /\ \A n \in 0..(pager.NumPages - 1) : within(PageView(n))
        /\ \A i \in 1..Len(file.Pages) : within(file.Pages[i])

\* an insert has filled a leaf under an internal root to its last cell, in
\* memory and, from an earlier session, in the file
C32_Witness ==
    /\ session = "open"
    /\ out.op = "insert"
    /\ out.res = EXECUTE_SUCCESS
    /\ GetNodeType(PageView(0)) = NODE_INTERNAL
    /\ \A n \in 1..2 : LeafNodeNumCells(PageView(n)) = LEAF_NODE_MAX_CELLS
    /\ \E i \in 1..Len(file.Pages) :
          /\ GetNodeType(file.Pages[i]) = NODE_LEAF
          /\ LeafNodeNumCells(file.Pages[i]) = LEAF_NODE_MAX_CELLS

\* C33: tableFind terminates in every reachable state. Its descent never
\* fails (InternalNodeChild is never asked for a child_num > num_keys, no page
\* is of an unknown kind, no page number is out of bounds), it visits pages of
\* the table and none of them twice, and it returns a cursor on a leaf page,
\* the last page visited, with cell_num <= the num_cells of that leaf: the
\* cursor the whole tableFind gives. A running descent is never longer than
\* the table has pages and always has a next level to take, and it leads to
\* the returned cursor.
C33_TableFindTerminates ==
    /\ [](finding.pc # "failed")
    /\ [](finding.pc \in { "descend", "found" } =>
             /\ Len(finding.path) >= 1
             /\ finding.path[1] = table.RootPageNum
             /\ \A i \in 1..Len(finding.path) :
                   /\ finding.path[i] \in 0..(pager.NumPages - 1)
                   /\ Cached(pager, finding.path[i])
                   /\ \A j \in 1..Len(finding.path) :
                         i # j => finding.path[i] # finding.path[j]
                   /\ i < Len(finding.path) =>
                         GetNodeType(pager.Pages[finding.path[i]]) = NODE_INTERNAL)
    /\ [](finding.pc = "found" =>
             /\ finding.cursor.PageNum = finding.path[Len(finding.path)]
             /\ GetNodeType(pager.Pages[finding.cursor.PageNum]) = NODE_LEAF
             /\ finding.cursor.CellNum <= LeafNodeNumCells(pager.Pages[finding.cursor.PageNum])
             /\ tableFind(file, pager, finding.key).err = "ok"
             /\ tableFind(file, pager, finding.key).cursor = finding.cursor)
    /\ [](finding.pc = "descend" =>
             /\ Len(finding.path) <= pager.NumPages
             /\ tableFindLevel(file, pager, finding).finding # finding)
    /\ (finding.pc = "descend") ~> (finding.pc = "found")

\* a find of the key 5 went from the internal root to its right leaf and
\* ended behind the last cell of that leaf
C33_Witness ==
    /\ session = "open"
    /\ finding.pc = "found"
    /\ finding.key = 5
    /\ Len(finding.path) = 2
    /\ GetNodeType(pager.Pages[finding.path[1]]) = NODE_INTERNAL
    /\ finding.path[2] = InternalNodeRightChild(pager.Pages[finding.path[1]])
    /\ finding.cursor.CellNum = LeafNodeNumCells(pager.Pages[finding.path[2]])
    /\ finding.cursor.CellNum = LEAF_NODE_MAX_CELLS

(***************************************************************************)
(* Insert lines with ids up to the width of an int.                        *)
(***************************************************************************)
\* the lines typed, each with its words and with what prepareStatement gives
\* for it: ids below, at and above 2^32, at 2^63, and below zero
IdLines ==
    { [buffer |-> b, words |-> Fields(b), prepared |-> prepareStatement(b)] :
        b \in { Join(<< INSERT, i, << 97 >>, << 101 >> >>) :
                  i \in { << 49 >>, << 50 >>,
                          << 52, 50, 57, 52, 57, 54, 55, 50, 57, 54 >>,
                          << 52, 50, 57, 52, 57, 54, 55, 50, 57, 55 >>,
                          << 57, 50, 50, 51, 51, 55, 50, 48, 51, 54, 56, 53, 52, 55, 55, 53, 56, 48, 56 >>,
                          << 45, 52, 50, 57, 52, 57, 54, 55, 50, 57, 55 >> } }
            \cup { SELECT } }

IdNext ==
    \/ DbOpen
    \/ MetaCommand(DOT_EXIT)
    \/ \E line \in IdLines : Rejected(line)
    \/ \E line \in IdLines : Statement(line)

IdSpec == Init /\ [][IdNext]_vars

\* C34: the key stored for an accepted insert is the integer written in the
\* line: whenever an insert line is executed with "Executed.", the id of the
\* row stored, taken as an int, is the number read from the second word of
\* the line (so a line with an id >= 2^32 is not executed).
C34_StoredKeyIsTyped ==
    [][\A line \in IdLines :
          (/\ out'.op = "insert"
           /\ out'.res = EXECUTE_SUCCESS
           /\ line.prepared.statement.Type = STATEMENT_INSERT
           /\ Statement(line))
              => IntOf(line.prepared.statement.RowToInsert.ID) = Sscanf(line.words[2]).id]_vars

=============================================================================
